---- MODULE Spec2Model ----
(***************************************************************************)
(* Model of vafaeim/advanced-proxy-checker: the per-proxy measurement      *)
(* protocol (core/checker.py) and the GUI scan coordinator (gui.py): the   *)
(* Tk main thread with its button callbacks and its queue poller, the URL  *)
(* fetch thread, the result-forwarding thread _run_checker_logic and the   *)
(* ThreadPoolExecutor workers running check_proxy.                         *)
(***************************************************************************)
EXTENDS Integers, Sequences, FiniteSets, TLC

(***************************************************************************)
(* Bounds of the model.                                                    *)
(***************************************************************************)
\* Most lines an input source holds.
MaxLines == 2
\* Largest "Ping Count" setting (samples per proxy).
MaxCount == 2
\* Largest "Workers" setting (size of the thread pool).
MaxWorkers == 2
\* Most external domains in "Ping to Domains".
MaxDomains == 1
MaxRecords == 3

(***************************************************************************)
(* Values.                                                                 *)
(***************************************************************************)
\* Optional[...] fields: None is the empty tuple, a present value v is <<v>>.
None == <<>>
Some(v) == <<v>>
IsNone(o) == o = <<>>
Val(o) == o[1]

\* Millisecond values a successful connect may take: int((t1 - t0) * 1000),
\* which is 0 for a connect faster than one millisecond.
LatencyValues == {0, 10, 25}

\* Marker for a call that ends by an exception no handler of the callee lists.
RAISE == "RAISE"

Range(s) == {s[i] : i \in DOMAIN s}

RECURSIVE SumSeq(_)
SumSeq(s) == IF s = <<>> THEN 0 ELSE Head(s) + SumSeq(Tail(s))

RECURSIVE SumSq(_)
SumSq(s) == IF s = <<>> THEN 0 ELSE Head(s) * Head(s) + SumSq(Tail(s))

\* Largest r with r * r <= n, by bisection on lo..hi (lo * lo <= n < hi * hi).
RECURSIVE ISqrtBetween(_, _, _)
ISqrtBetween(n, lo, hi) ==
    IF hi - lo <= 1 THEN lo
    ELSE LET mid == (lo + hi) \div 2
         IN  IF mid * mid <= n THEN ISqrtBetween(n, mid, hi)
                               ELSE ISqrtBetween(n, lo, mid)

ISqrt(n) == ISqrtBetween(n, 0, 46340)

(***************************************************************************)
(* core/checker.py: data structures.                                       *)
(***************************************************************************)
\* Proxy(server, port, secret, original_url) with the dataclass defaults.
Proxy(server, port, secret, original_url) ==
    [server |-> server, port |-> port, secret |-> secret,
     original_url |-> original_url,
     ping |-> None, jitter |-> None, country_code |-> None,
     anonymity |-> "Unknown", ping_results |-> <<>>]

\* FilterCriteria with the dataclass defaults.
FilterCriteria ==
    [max_ping |-> None, min_ping |-> None, include_countries |-> None,
     exclude_countries |-> None, require_secret |-> None, top_n |-> None,
     sort_by |-> "ping", sort_order |-> "asc"]

(***************************************************************************)
(* core/checker.py: the probes.  Each probe is modelled by the set of      *)
(* outcomes its call can end with: a value, None, or RAISE for an          *)
(* exception that no except clause of the probe lists.  latencies is the   *)
(* set of millisecond values a connect that succeeds may take.             *)
(***************************************************************************)
\* Host names the idna codec cannot encode (an empty label, as in "a..b"):
\* socket.create_connection and socket.gethostbyname raise UnicodeError,
\* a ValueError, for them.
UnencodableHosts == {"a..b"}
IdnaEncodable(server) == server \notin UnencodableHosts

\* Ports socket.connect accepts; for any other it raises OverflowError.
PortInRange(port) == port >= 0 /\ port <= 65535

\* measure_latency(server, port, timeout): the except clause lists
\* socket.timeout, socket.gaierror, ConnectionRefusedError and OSError.
measure_latency(server, port, latencies) ==
    IF ~IdnaEncodable(server) THEN {RAISE}
    ELSE {None} \cup {Some(v) : v \in latencies}

\* measure_latency_via_proxy(proxy_server, proxy_port, target, 443, timeout):
\* the connect to the proxy address raises OverflowError for a port outside
\* 0..65535, which the except clause does not list.
measure_latency_via_proxy(proxy_server, proxy_port, target_server, latencies) ==
    IF ~PortInRange(proxy_port) THEN {RAISE}
    ELSE {None} \cup {Some(v) : v \in latencies}

\* What the GET of ANONYMITY_CHECK_URL through the proxy can come back with.
\* A header is None when absent and Some(text) when present.
HeaderValues == {None, Some(""), Some("1.1 relay")}
AnonResponses ==
    {[kind |-> "request_failed"], [kind |-> "not_json"], [kind |-> "not_a_dict"]}
    \cup {[kind |-> "echo", origin |-> o, via |-> v, forwarded |-> f] :
            o \in {<<"9.9.9.9">>, <<"9.9.9.9", "7.7.7.7">>},
            v \in HeaderValues, f \in HeaderValues}

\* headers.get(name, ''): the header's text, '' when it is absent.
HeaderGet(h) == IF IsNone(h) THEN "" ELSE Val(h)

\* check_anonymity(proxy_server, proxy_port, timeout) on a given response.
check_anonymity(resp) ==
    CASE resp.kind = "request_failed" -> "Anonymous"
      [] resp.kind = "not_json" -> "Anonymous"
      [] resp.kind = "not_a_dict" -> RAISE
      [] OTHER ->
            IF Len(resp.origin) > 1 \/ HeaderGet(resp.via) # ""
                                   \/ HeaderGet(resp.forwarded) # ""
            THEN "Transparent" ELSE "Elite"

\* What the GET of GEO_API_URL can come back with.
GeoResponses ==
    {[kind |-> "request_failed"], [kind |-> "not_json"], [kind |-> "not_a_dict"],
     [kind |-> "json", status |-> "fail", countryCode |-> None],
     [kind |-> "json", status |-> "success", countryCode |-> None],
     [kind |-> "json", status |-> "success", countryCode |-> Some("US")]}

\* get_geo_info(ip_address)["code"] on a given response.
\* A body that is not JSON makes response.json() raise requests'
\* JSONDecodeError, a RequestException.
get_geo_info(resp) ==
    CASE resp.kind = "request_failed" -> "N/A"
      [] resp.kind = "not_json" -> "N/A"
      [] resp.kind = "not_a_dict" -> RAISE
      [] OTHER ->
            IF resp.status = "success"
            THEN IF IsNone(resp.countryCode) THEN "N/A" ELSE Val(resp.countryCode)
            ELSE "N/A"

\* socket.gethostbyname(server): TRUE when it resolves, FALSE for gaierror.
ResolveOutcomes == {TRUE, FALSE}

\* int(statistics.mean(latencies)) for a non-empty list of integers >= 0.
MeanPing(latencies) == SumSeq(latencies) \div Len(latencies)

\* round(statistics.stdev(latencies) if len(latencies) > 1 else 0, 2), in
\* hundredths of a millisecond.  The sample variance of n integers is
\* (n * sum(x^2) - sum(x)^2) / (n * (n - 1)).
Jitter(latencies) ==
    IF Len(latencies) > 1
    THEN LET n == Len(latencies)
             num == n * SumSq(latencies) - SumSeq(latencies) * SumSeq(latencies)
             den == n * (n - 1)
         IN  (ISqrt((40000 * num) \div den) + 1) \div 2
    ELSE 0

\* proxy.ping_results[domain] = value
DictSet(d, k, v) == [x \in DOMAIN d \cup {k} |-> IF x = k THEN v ELSE d[x]]

(***************************************************************************)
(* core/checker.py: parse_proxy_url.  A descriptor line is modelled by     *)
(* what urlparse and parse_qs make of it: whether it has surrounding       *)
(* whitespace (ws), and the first value of the query parameters server,    *)
(* port and secret, "" or <<>> when the parameter is missing or blank      *)
(* (parse_qs drops blank values).  port and secret are tuples of           *)
(* characters.                                                             *)
(***************************************************************************)
Digits == <<"0", "1", "2", "3", "4", "5", "6", "7", "8", "9">>
IsDigit(c) == \E i \in 1..10 : Digits[i] = c
DigitVal(c) == (CHOOSE i \in 1..10 : Digits[i] = c) - 1

RECURSIVE StripLeft(_)
StripLeft(s) == IF s # <<>> /\ Head(s) = " " THEN StripLeft(Tail(s)) ELSE s

RECURSIVE StripRight(_)
StripRight(s) ==
    IF s # <<>> /\ s[Len(s)] = " " THEN StripRight(SubSeq(s, 1, Len(s) - 1)) ELSE s

\* The digits of an integer literal: digits, single underscores between them.
DigitsWellFormed(s) ==
    /\ s # <<>>
    /\ \A i \in 1..Len(s) :
          \/ IsDigit(s[i])
          \/ s[i] = "_" /\ i > 1 /\ i < Len(s) /\ IsDigit(s[i - 1]) /\ IsDigit(s[i + 1])

RECURSIVE DigitsValue(_, _)
DigitsValue(s, acc) ==
    IF s = <<>> THEN acc
    ELSE IF Head(s) = "_" THEN DigitsValue(Tail(s), acc)
         ELSE DigitsValue(Tail(s), 10 * acc + DigitVal(Head(s)))

\* int(port_str): Some(value), or None where Python raises ValueError.
PyInt(str) ==
    LET t == StripRight(StripLeft(str))
        signed == t # <<>> /\ Head(t) \in {"-", "+"}
        body == IF signed THEN Tail(t) ELSE t
    IN  IF ~DigitsWellFormed(body) THEN None
        ELSE IF signed /\ Head(t) = "-" THEN Some(0 - DigitsValue(body, 0))
             ELSE Some(DigitsValue(body, 0))

\* A cleaned line that has lost its query string.
StripLineAndQuery(line) == [line EXCEPT !.ws = FALSE, !.secret = <<>>]

\* proxy_url.strip()
StripLine(line) == [line EXCEPT !.ws = FALSE]

\* parse_proxy_url(proxy_url): Some(Proxy) or None.
parse_proxy_url(line) ==
    IF ~line.nonblank THEN None
    ELSE IF line.server = "" \/ line.port = <<>> \/ line.secret = <<>> THEN None
    ELSE IF IsNone(PyInt(line.port)) THEN None
    ELSE Some(Proxy(line.server, Val(PyInt(line.port)), line.secret, StripLine(line)))

\* A batch whose parsing ends at the first line that yields no record.
RECURSIVE ParseAllUntilMalformed(_)
ParseAllUntilMalformed(urls) ==
    IF urls = <<>> THEN <<>>
    ELSE LET p == parse_proxy_url(Head(urls))
         IN  IF IsNone(p) THEN <<>>
             ELSE <<Val(p)>> \o ParseAllUntilMalformed(Tail(urls))

\* [p for p in (parse_proxy_url(url) for url in urls) if p]
RECURSIVE ParseAll(_)
ParseAll(urls) ==
    IF urls = <<>> THEN <<>>
    ELSE LET p == parse_proxy_url(Head(urls))
         IN  (IF IsNone(p) THEN <<>> ELSE <<Val(p)>>) \o ParseAll(Tail(urls))

(***************************************************************************)
(* core/checker.py: filter_and_sort_proxies.                               *)
(***************************************************************************)
\* str.upper() on the country codes of the model.
Upper(c) == CASE c = "us" -> "US" [] c = "de" -> "DE" [] OTHER -> c

\* needle in haystack, for tuples of characters.
Contains(haystack, needle) ==
    \E i \in 0..(Len(haystack) - Len(needle)) :
        SubSeq(haystack, i + 1, i + Len(needle)) = needle

\* getattr(p, sort_by)
GetAttr(p, name) == IF name = "jitter" THEN p.jitter ELSE p.ping

\* getattr(p, criteria.sort_by) or float('inf'): None and 0 are falsy.  The
\* key <<0, v>> is the number v and <<1, 0>> is infinity.
SortKey(p, sort_by) ==
    LET v == GetAttr(p, sort_by)
    IN  IF IsNone(v) \/ Val(v) = 0 THEN <<1, 0>> ELSE <<0, Val(v)>>

KeyLess(a, b) == a[1] < b[1] \/ (a[1] = b[1] /\ a[2] < b[2])

\* list.sort(key=..., reverse=...) is stable for both directions: an element
\* goes after every element already placed that does not sort after it.
RECURSIVE InsertSorted(_, _, _, _)
InsertSorted(sorted, p, sort_by, reverse) ==
    IF sorted = <<>> THEN <<p>>
    ELSE LET h == Head(sorted)
             after == IF reverse THEN KeyLess(SortKey(h, sort_by), SortKey(p, sort_by))
                                 ELSE KeyLess(SortKey(p, sort_by), SortKey(h, sort_by))
         IN  IF after THEN <<p>> \o sorted
             ELSE <<h>> \o InsertSorted(Tail(sorted), p, sort_by, reverse)

RECURSIVE SortFrom(_, _, _, _)
SortFrom(done, rest, sort_by, reverse) ==
    IF rest = <<>> THEN done
    ELSE SortFrom(InsertSorted(done, Head(rest), sort_by, reverse),
                  Tail(rest), sort_by, reverse)

\* A descending sort done as an ascending sort followed by a reversal.
SortThenReverse(ps, sort_by, reverse) ==
    LET ascending == SortFrom(<<>>, ps, sort_by, FALSE)
    IN  IF reverse
        THEN [i \in 1..Len(ascending) |-> ascending[Len(ascending) + 1 - i]]
        ELSE ascending

SortProxies(ps, sort_by, reverse) == SortFrom(<<>>, ps, sort_by, reverse)

\* A list is truthy when it is not None and not empty (None and [] are <<>>).
Truthy(x) == x # <<>>

\* filtered[:top_n] for top_n >= 0 (a negative top_n drops from the end).
Truncate(ps, n) ==
    IF n >= 0 THEN SubSeq(ps, 1, IF n < Len(ps) THEN n ELSE Len(ps))
    ELSE SubSeq(ps, 1, IF Len(ps) + n > 0 THEN Len(ps) + n ELSE 0)

\* filter_and_sort_proxies with the min_ping step as an "elif" of the max_ping
\* step: a lower bound is not applied when an upper bound is given.
filter_and_sort_proxies_elif_min_ping(proxies, criteria) ==
    LET f1 == IF ~IsNone(criteria.max_ping)
              THEN SelectSeq(proxies,
                     LAMBDA p : ~IsNone(p.ping) /\ Val(p.ping) <= Val(criteria.max_ping))
              ELSE proxies
        f2 == IF IsNone(criteria.max_ping) /\ ~IsNone(criteria.min_ping)
              THEN SelectSeq(f1,
                     LAMBDA p : ~IsNone(p.ping) /\ Val(p.ping) >= Val(criteria.min_ping))
              ELSE f1
        f3 == IF Truthy(criteria.require_secret)
              THEN SelectSeq(f2, LAMBDA p : Contains(p.secret, criteria.require_secret))
              ELSE f2
        f4 == IF Truthy(criteria.include_countries)
              THEN SelectSeq(f3,
                     LAMBDA p : \E i \in DOMAIN criteria.include_countries :
                                   p.country_code = Some(Upper(criteria.include_countries[i])))
              ELSE f3
        f5 == IF Truthy(criteria.exclude_countries)
              THEN SelectSeq(f4,
                     LAMBDA p : ~\E i \in DOMAIN criteria.exclude_countries :
                                   p.country_code = Some(Upper(criteria.exclude_countries[i])))
              ELSE f4
        sorted == SortProxies(f5, criteria.sort_by, criteria.sort_order = "desc")
    IN  IF ~IsNone(criteria.top_n) THEN Truncate(sorted, Val(criteria.top_n)) ELSE sorted

\* filter_and_sort_proxies with exclusive ping bounds ("<" and ">").
filter_and_sort_proxies_exclusive_bounds(proxies, criteria) ==
    LET f1 == IF ~IsNone(criteria.max_ping)
              THEN SelectSeq(proxies,
                     LAMBDA p : ~IsNone(p.ping) /\ Val(p.ping) < Val(criteria.max_ping))
              ELSE proxies
        f2 == IF ~IsNone(criteria.min_ping)
              THEN SelectSeq(f1,
                     LAMBDA p : ~IsNone(p.ping) /\ Val(p.ping) > Val(criteria.min_ping))
              ELSE f1
        f3 == IF Truthy(criteria.require_secret)
              THEN SelectSeq(f2, LAMBDA p : Contains(p.secret, criteria.require_secret))
              ELSE f2
        f4 == IF Truthy(criteria.include_countries)
              THEN SelectSeq(f3,
                     LAMBDA p : \E i \in DOMAIN criteria.include_countries :
                                   p.country_code = Some(Upper(criteria.include_countries[i])))
              ELSE f3
        f5 == IF Truthy(criteria.exclude_countries)
              THEN SelectSeq(f4,
                     LAMBDA p : ~\E i \in DOMAIN criteria.exclude_countries :
                                   p.country_code = Some(Upper(criteria.exclude_countries[i])))
              ELSE f4
        sorted == SortProxies(f5, criteria.sort_by, criteria.sort_order = "desc")
    IN  IF ~IsNone(criteria.top_n) THEN Truncate(sorted, Val(criteria.top_n)) ELSE sorted

\* filter_and_sort_proxies with the truncation done before the sort.
filter_and_sort_proxies_truncate_first(proxies, criteria) ==
    LET f1 == IF ~IsNone(criteria.max_ping)
              THEN SelectSeq(proxies,
                     LAMBDA p : ~IsNone(p.ping) /\ Val(p.ping) <= Val(criteria.max_ping))
              ELSE proxies
        f2 == IF ~IsNone(criteria.min_ping)
              THEN SelectSeq(f1,
                     LAMBDA p : ~IsNone(p.ping) /\ Val(p.ping) >= Val(criteria.min_ping))
              ELSE f1
        f3 == IF Truthy(criteria.require_secret)
              THEN SelectSeq(f2, LAMBDA p : Contains(p.secret, criteria.require_secret))
              ELSE f2
        f4 == IF Truthy(criteria.include_countries)
              THEN SelectSeq(f3,
                     LAMBDA p : \E i \in DOMAIN criteria.include_countries :
                                   p.country_code = Some(Upper(criteria.include_countries[i])))
              ELSE f3
        f5 == IF Truthy(criteria.exclude_countries)
              THEN SelectSeq(f4,
                     LAMBDA p : ~\E i \in DOMAIN criteria.exclude_countries :
                                   p.country_code = Some(Upper(criteria.exclude_countries[i])))
              ELSE f4
        truncated == IF ~IsNone(criteria.top_n) THEN Truncate(f5, Val(criteria.top_n)) ELSE f5
    IN  SortProxies(truncated, criteria.sort_by, criteria.sort_order = "desc")

\* Each "filtered = [p for p in filtered if ...]" is a SelectSeq.
filter_and_sort_proxies(proxies, criteria) ==
    LET f1 == IF ~IsNone(criteria.max_ping)
              THEN SelectSeq(proxies,
                     LAMBDA p : ~IsNone(p.ping) /\ Val(p.ping) <= Val(criteria.max_ping))
              ELSE proxies
        f2 == IF ~IsNone(criteria.min_ping)
              THEN SelectSeq(f1,
                     LAMBDA p : ~IsNone(p.ping) /\ Val(p.ping) >= Val(criteria.min_ping))
              ELSE f1
        f3 == IF Truthy(criteria.require_secret)
              THEN SelectSeq(f2, LAMBDA p : Contains(p.secret, criteria.require_secret))
              ELSE f2
        f4 == IF Truthy(criteria.include_countries)
              THEN SelectSeq(f3,
                     LAMBDA p : \E i \in DOMAIN criteria.include_countries :
                                   p.country_code = Some(Upper(criteria.include_countries[i])))
              ELSE f3
        f5 == IF Truthy(criteria.exclude_countries)
              THEN SelectSeq(f4,
                     LAMBDA p : ~\E i \in DOMAIN criteria.exclude_countries :
                                   p.country_code = Some(Upper(criteria.exclude_countries[i])))
              ELSE f4
        sorted == SortProxies(f5, criteria.sort_by, criteria.sort_order = "desc")
    IN  IF ~IsNone(criteria.top_n) THEN Truncate(sorted, Val(criteria.top_n)) ELSE sorted

\* One of the five list comprehensions runs and rebinds filtered to a new
\* list; otherwise filtered is still the caller's list when it is sorted.
AnyFilterRuns(criteria) ==
    \/ ~IsNone(criteria.max_ping)
    \/ ~IsNone(criteria.min_ping)
    \/ Truthy(criteria.require_secret)
    \/ Truthy(criteria.include_countries)
    \/ Truthy(criteria.exclude_countries)

\* The caller's list after filter_and_sort_proxies(proxies, criteria):
\* "filtered = proxies" is the same list object, and filtered.sort(...)
\* sorts in place.
ArgumentAfterCall(proxies, criteria) ==
    IF AnyFilterRuns(criteria) THEN proxies
    ELSE SortProxies(proxies, criteria.sort_by, criteria.sort_order = "desc")

(***************************************************************************)
(* Inputs of a scan.                                                       *)
(***************************************************************************)
\* The descriptor lines an input source may hold, by kind: a well-formed
\* line, one whose server is a host name idna cannot encode, one whose port
\* is an integer above 65535, one without a secret ("malformed"), one
\* without a server, one without a port and one whose port is no integer.
\* The k-th line of a source names the k-th host, so the lines of a source
\* are distinct, as the callers' set comprehension makes them.
LineKinds == {"good", "badhost", "bigport", "malformed", "noserver", "noport", "badport"}
Hosts == <<"h1", "h2", "h3", "h4">>
LineOf(kind, k) ==
    [ws |-> FALSE, nonblank |-> TRUE,
     server |-> CASE kind = "badhost" -> "a..b"
                  [] kind = "noserver" -> ""
                  [] OTHER -> Hosts[k],
     port |-> CASE kind = "bigport" -> <<"7", "0", "0", "0", "0">>
                [] kind = "noport" -> <<>>
                [] kind = "badport" -> <<"4", "4", "x">>
                [] OTHER -> <<"4", "4", "3">>,
     secret |-> IF kind = "malformed" THEN <<>> ELSE <<"s", Digits[k + 1]>>]

\* The texts of an input source, each the tuple of its stripped, non-blank,
\* distinct lines in the order the set is iterated.
InputTexts(line_kinds, max_lines) ==
    UNION {{[k \in 1..n |-> LineOf(kinds[k], k)] : kinds \in [1..n -> line_kinds]} :
             n \in 0..max_lines}

\* "Ping to Domains": [d.strip() for d in ping_to_var.get().split(',') if d.strip()]
DefaultDomains == <<"google.com", "cloudflare.com">>
DomainChoices == {SubSeq(DefaultDomains, 1, n) : n \in 0..MaxDomains}

\* The connection settings _run_checker_logic may read: the smallest ones
\* and the largest ones of the model.
SettingsChoices ==
    {[count |-> 1, workers |-> 1, fetch_country |-> FALSE],
     [count |-> MaxCount, workers |-> MaxWorkers, fetch_country |-> TRUE]}

\* The filter settings a scan may end with: the criteria
\* _apply_filters_and_sort builds from the filter entries.
CriteriaChoices == {FilterCriteria, [FilterCriteria EXCEPT !.max_ping = Some(20)]}

(***************************************************************************)
(* The world a behaviour runs in: what the input sources may hold, what    *)
(* the settings may be and what the network may answer.                    *)
(***************************************************************************)
EchoElite == [kind |-> "echo", origin |-> <<"9.9.9.9">>, via |-> None, forwarded |-> None]
GeoUS == [kind |-> "json", status |-> "success", countryCode |-> Some("US")]

\* The world of the scan coordinator's specification: sources of up to
\* MaxLines lines, each well-formed, with an unencodable host or without a
\* secret, and a
\* network in which a connect takes 10 or 25 ms or fails, the echo service
\* shows no leak and the proxies are in the US.
ScanWorld ==
    [lines |-> MaxLines,
     kinds |-> {"good", "badhost", "malformed"},
     settings |-> SettingsChoices,
     domains |-> DomainChoices,
     latencies |-> {10, 25},
     anon |-> {EchoElite},
     resolve |-> {TRUE},
     geo |-> {GeoUS}]

\* The world of the measurement protocol's specification: sources of one
\* line of any kind, and a network that answers in every way of the model.
ProbeWorld ==
    [lines |-> 1,
     kinds |-> LineKinds,
     settings |-> SettingsChoices,
     domains |-> DomainChoices,
     latencies |-> LatencyValues,
     anon |-> AnonResponses,
     resolve |-> ResolveOutcomes,
     geo |-> GeoResponses]

\* The world of the parser's specification: sources of up to MaxLines lines,
\* each well-formed, with an unencodable host or malformed in one of the
\* four ways, and a network in which a connect takes 10 ms or fails.
ParseWorld ==
    [lines |-> MaxLines,
     kinds |-> {"good", "badhost", "malformed", "noserver", "noport", "badport"},
     settings |-> {[count |-> 1, workers |-> MaxWorkers, fetch_country |-> TRUE]},
     domains |-> {SubSeq(DefaultDomains, 1, MaxDomains)},
     latencies |-> {10},
     anon |-> {EchoElite},
     resolve |-> {TRUE},
     geo |-> {GeoUS}]

(***************************************************************************)
(* State.                                                                  *)
(***************************************************************************)
VARIABLES
    world,              \* the world of the behaviour; it never changes
    call,               \* a call of a function of core/checker.py made on its
                        \* own, outside a scan: its arguments and what it returned
    scan_running,       \* threading.Event: set while a scan runs
    scan_paused,        \* threading.Event: set while the scan is paused
    controls,           \* "idle": Start and Clear enabled, Pause and Stop
                        \* disabled; "scanning": the reverse
    proxies_to_check,   \* the parsed proxies of the scan
    total_proxies, checked_proxies, healthy_proxies,
    results,            \* the result collection
    external_domains,
    result_queue,       \* queue.Queue: messages to the main thread, FIFO
    fetching,           \* whether the _thread_fetch_url thread is alive
    fwd,                \* the _run_checker_logic thread: its position and locals
    futures,            \* the executor's futures, in submission order
    worker,             \* each pool thread's current future, 0 when it has none
    hist                \* history of the behaviour, read by the properties only

vars == <<world, call, scan_running, scan_paused, controls, proxies_to_check,
          total_proxies, checked_proxies, healthy_proxies, results,
          external_domains, result_queue, fetching, fwd, futures, worker, hist>>

gui_vars == <<world, call, scan_running, scan_paused, controls, proxies_to_check,
              total_proxies, checked_proxies, healthy_proxies, results,
              external_domains>>

\* A future of the pool and the check_proxy call it runs: st is "pending",
\* "running" or "done"; pc, k, latencies and d are the call's position and
\* locals; proxy is the Proxy object the call mutates; outcome is how the
\* call ended: "result" (it returned the proxy), "none" (it returned None)
\* or "exception"; sampled records, for the properties, whether a latency
\* sample of the call succeeded.
NewFuture(p) ==
    [st |-> "pending", pc |-> "sample", k |-> 0, latencies |-> <<>>, d |-> 1,
     proxy |-> p, outcome |-> "-", sampled |-> FALSE, samples |-> <<>>,
     open_sockets |-> 0]

FwdIdle ==
    [pc |-> "none", i |-> 0, cur |-> 0, yielded |-> {},
     count |-> 1, workers |-> 1, fetch_country |-> FALSE]

HistInit ==
    [stopSignalled |-> FALSE, startedAtStop |-> {}, doneAtStop |-> {},
     stepsAfterStop |-> <<>>, finished |-> FALSE, final |-> "-", handed |-> <<>>]

\* No function is called on its own.
NoCall == [fn |-> "-"]

\* The coordinator's state after ProxyCheckerGUI.__init__, in world the_world.
ProgramInit(the_world) ==
    /\ world = the_world
    /\ scan_running = FALSE
    /\ scan_paused = FALSE
    /\ controls = "idle"
    /\ proxies_to_check = <<>>
    /\ total_proxies = 0
    /\ checked_proxies = 0
    /\ healthy_proxies = 0
    /\ results = <<>>
    /\ external_domains = SubSeq(DefaultDomains, 1, MaxDomains)
    /\ result_queue = <<>>
    /\ fetching = FALSE
    /\ fwd = FwdIdle
    /\ futures = <<>>
    /\ worker = [w \in 1..MaxWorkers |-> 0]
    /\ hist = HistInit

\* The state after ProxyCheckerGUI.__init__, in world the_world.
InitIn(the_world) ==
    /\ call = NoCall
    /\ ProgramInit(the_world)

Init == InitIn(ScanWorld)

Started == {i \in DOMAIN futures : futures[i].st # "pending"}
Finished == {i \in DOMAIN futures : futures[i].st = "done"}

(***************************************************************************)
(* gui.py: the main thread.  Every callback runs to its end before the     *)
(* next one starts.                                                        *)
(***************************************************************************)
\* _clear_results: the part that changes the state of the model.
ClearResults ==
    /\ results' = <<>>
    /\ checked_proxies' = 0
    /\ healthy_proxies' = 0

\* _scan_aborted that enables Start but leaves the run flag as it is.
ScanAbortedKeepsRunning ==
    /\ scan_running' = scan_running
    /\ controls' = "idle"

\* _scan_aborted
ScanAborted ==
    /\ scan_running' = FALSE
    /\ controls' = "idle"

\* _proceed_with_scan(proxies); _setup_tree_columns reads "Ping to Domains".
ProceedWithScan(proxies) ==
    /\ proxies_to_check' = proxies
    /\ total_proxies' = Len(proxies)
    /\ \E domains \in world.domains : external_domains' = domains
    /\ fwd' = [FwdIdle EXCEPT !.pc = "start"]

\* The history of a scan that starts.  The executor of the scan before is
\* dropped here, where nothing can use it any more, and so is what is left
\* of its forwarding thread, which has ended (fwd' = FwdIdle in the callers).
StartHistory ==
    /\ hist' = HistInit
    /\ futures' = <<>>

\* _start_scan with the URL source and an empty URL field.
StartScanEmptyUrl ==
    /\ controls = "idle"
    /\ ~scan_running
    /\ ClearResults
    /\ StartHistory
    /\ ScanAborted
    /\ fwd' = FwdIdle
    /\ UNCHANGED <<world, call, scan_paused, proxies_to_check, total_proxies, external_domains,
                   result_queue, fetching, worker>>

\* _start_scan with the URL source: the fetch thread is started.
StartScanUrl ==
    /\ controls = "idle"
    /\ ~scan_running
    /\ ClearResults
    /\ StartHistory
    /\ scan_running' = TRUE
    /\ controls' = "scanning"
    /\ fetching' = TRUE
    /\ fwd' = FwdIdle
    /\ UNCHANGED <<world, call, scan_paused, proxies_to_check, total_proxies, external_domains,
                   result_queue, worker>>

\* _start_scan with the file or text source holding text, and
\* _get_proxies_from_source_and_proceed: no file selected, an empty text area
\* and a source without a valid line raise ValueError.
StartScanLocalWith(text) ==
    /\ controls = "idle"
    /\ ~scan_running
    /\ ClearResults
    /\ StartHistory
    /\ LET parsed == ParseAll(text)
       IN  IF parsed = <<>>
           THEN /\ ScanAborted
                /\ fwd' = FwdIdle
                /\ UNCHANGED <<proxies_to_check, total_proxies, external_domains>>
           ELSE /\ scan_running' = TRUE
                /\ controls' = "scanning"
                /\ ProceedWithScan(parsed)
    /\ UNCHANGED <<world, call, scan_paused, result_queue, fetching, worker>>

StartScanLocal ==
    \E text \in InputTexts(world.kinds, world.lines) : StartScanLocalWith(text)

\* _pause_scan while the pause flag is clear.
PauseScan ==
    /\ controls = "scanning"
    /\ ~scan_paused
    /\ scan_paused' = TRUE
    /\ UNCHANGED <<world, call, scan_running, controls, proxies_to_check, total_proxies,
                   checked_proxies, healthy_proxies, results, external_domains,
                   result_queue, fetching, fwd, futures, worker, hist>>

\* _pause_scan while the pause flag is set.
ResumeScan ==
    /\ controls = "scanning"
    /\ scan_paused
    /\ scan_paused' = FALSE
    /\ UNCHANGED <<world, call, scan_running, controls, proxies_to_check, total_proxies,
                   checked_proxies, healthy_proxies, results, external_domains,
                   result_queue, fetching, fwd, futures, worker, hist>>

\* A _stop_scan that also calls _set_controls_state_on_scan_end.
StopScanEnablesStart ==
    /\ controls = "scanning"
    /\ scan_running
    /\ scan_running' = FALSE
    /\ scan_paused' = FALSE
    /\ controls' = "idle"
    /\ hist' = [hist EXCEPT !.stopSignalled = TRUE, !.startedAtStop = Started,
                            !.doneAtStop = Finished]
    /\ UNCHANGED <<world, call, proxies_to_check, total_proxies, checked_proxies,
                   healthy_proxies, results, external_domains, result_queue,
                   fetching, fwd, futures, worker>>

\* _stop_scan while the run flag is set (it does nothing otherwise).
StopScan ==
    /\ controls = "scanning"
    /\ scan_running
    /\ scan_running' = FALSE
    /\ scan_paused' = FALSE
    /\ hist' = [hist EXCEPT !.stopSignalled = TRUE, !.startedAtStop = Started,
                            !.doneAtStop = Finished]
    /\ UNCHANGED <<world, call, controls, proxies_to_check, total_proxies, checked_proxies,
                   healthy_proxies, results, external_domains, result_queue,
                   fetching, fwd, futures, worker>>

\* _clear_all, confirmed in the dialog.
ClearAll ==
    /\ controls = "idle"
    /\ ~scan_running
    /\ ClearResults
    /\ UNCHANGED <<world, call, scan_running, scan_paused, controls, proxies_to_check,
                   total_proxies, external_domains, result_queue, fetching, fwd,
                   futures, worker, hist>>

\* _process_queue takes the messages one by one; a message put while it
\* runs is taken by the same run, as one put before it started would be.
HeadIs(type) == result_queue # <<>> /\ Head(result_queue).type = type

\* URL_FETCH_SUCCESS
HandleFetchSuccess ==
    /\ HeadIs("URL_FETCH_SUCCESS")
    /\ result_queue' = Tail(result_queue)
    /\ LET parsed == ParseAll(Head(result_queue).data)
       IN  IF parsed = <<>>
           THEN /\ ScanAborted
                /\ UNCHANGED <<proxies_to_check, total_proxies, external_domains, fwd>>
           ELSE /\ ProceedWithScan(parsed)
                /\ UNCHANGED <<scan_running, controls>>
    /\ UNCHANGED <<world, call, scan_paused, checked_proxies, healthy_proxies, results, fetching,
                   futures, worker, hist>>

\* URL_FETCH_ERROR
HandleFetchError ==
    /\ HeadIs("URL_FETCH_ERROR")
    /\ result_queue' = Tail(result_queue)
    /\ ScanAborted
    /\ UNCHANGED <<world, call, scan_paused, proxies_to_check, total_proxies, checked_proxies,
                   healthy_proxies, results, external_domains, fetching, fwd,
                   futures, worker, hist>>

\* PROGRESS_UPDATE
HandleProgress ==
    /\ HeadIs("PROGRESS_UPDATE")
    /\ result_queue' = Tail(result_queue)
    /\ checked_proxies' = Head(result_queue).data
    /\ UNCHANGED <<world, call, scan_running, scan_paused, controls, proxies_to_check,
                   total_proxies, healthy_proxies, results, external_domains,
                   fetching, fwd, futures, worker, hist>>

\* RESULT
HandleResult ==
    /\ HeadIs("RESULT")
    /\ result_queue' = Tail(result_queue)
    /\ results' = Append(results, Head(result_queue).data)
    /\ healthy_proxies' = healthy_proxies + 1
    /\ UNCHANGED <<world, call, scan_running, scan_paused, controls, proxies_to_check,
                   total_proxies, checked_proxies, external_domains, fetching, fwd,
                   futures, worker, hist>>

\* The final status _scan_finished shows.
FinalStatus ==
    IF ~scan_running /\ checked_proxies < total_proxies THEN "Stopped" ELSE "Complete"

\* SCAN_COMPLETE: _scan_finished, with _apply_filters_and_sort, which keeps
\* the results as they are when a filter entry is no integer.
HandleScanComplete ==
    /\ HeadIs("SCAN_COMPLETE")
    /\ result_queue' = Tail(result_queue)
    /\ \E criteria \in CriteriaChoices, valid \in BOOLEAN :
          results' = IF valid THEN filter_and_sort_proxies(results, criteria)
                              ELSE results
    /\ controls' = "idle"
    /\ scan_running' = FALSE
    /\ hist' = [hist EXCEPT !.finished = TRUE, !.final = FinalStatus,
                            !.handed = results]
    /\ UNCHANGED <<world, call, scan_paused, proxies_to_check, total_proxies, checked_proxies,
                   healthy_proxies, external_domains, fetching, fwd, futures, worker>>

(***************************************************************************)
(* gui.py: _thread_fetch_url.                                              *)
(***************************************************************************)
\* A queue that hands out the message put last first.
PutAtFront(type, data) ==
    result_queue' = <<[type |-> type, data |-> data]>> \o result_queue

\* queue.Queue.put: first in, first out.
Put(type, data) == result_queue' = Append(result_queue, [type |-> type, data |-> data])

FetchSucceeds ==
    /\ fetching
    /\ fetching' = FALSE
    /\ \E text \in InputTexts(world.kinds, world.lines) \ {<<>>} : Put("URL_FETCH_SUCCESS", text)
    /\ UNCHANGED <<gui_vars, fwd, futures, worker, hist>>

\* An empty file, an HTTP error status or any other RequestException.
FetchFails ==
    /\ fetching
    /\ fetching' = FALSE
    /\ Put("URL_FETCH_ERROR", <<>>)
    /\ UNCHANGED <<gui_vars, fwd, futures, worker, hist>>

(***************************************************************************)
(* core/checker.py: check_proxy, one probe step at a time.                 *)
(***************************************************************************)
\* How a call of check_proxy ends.
EndCall(f, outcome) ==
    [f EXCEPT !.st = "done", !.pc = "-", !.outcome = outcome, !.samples = <<>>]

\* After the proxy's anonymity or country is stored: the first tunnelled
\* probe, or "return proxy" when no external domain is requested.
AfterGeo(f, domains) ==
    IF Len(domains) >= 1 THEN [f EXCEPT !.pc = "tunnel", !.d = 1]
    ELSE EndCall(f, "result")

\* After the anonymity probe: the geolocation step when it is requested.
AfterAnonymity(f, fetch_country, domains) ==
    IF fetch_country THEN [f EXCEPT !.pc = "geo"] ELSE AfterGeo(f, domains)

\* A check_proxy without "if not latencies: return None": the call goes on
\* with no ping and no jitter.
AfterSamplingWithoutRejection(f) ==
    [f EXCEPT !.pc = "anon",
              !.proxy.ping = IF f.latencies = <<>> THEN None
                             ELSE Some(MeanPing(f.latencies)),
              !.proxy.jitter = IF f.latencies = <<>> THEN None
                               ELSE Some(Jitter(f.latencies)),
              !.latencies = <<>>]

\* The end of the sampling loop: "if not latencies: return None", then ping
\* and jitter are stored (and the list, not read again, is dropped).
AfterSampling(f) ==
    IF f.latencies = <<>> THEN EndCall(f, "none")
    ELSE [f EXCEPT !.pc = "anon",
                   !.proxy.ping = Some(MeanPing(f.latencies)),
                   !.proxy.jitter = Some(Jitter(f.latencies)),
                   !.latencies = <<>>]

\* A sampling loop that keeps a failed sample as the placeholder 0.
SampleStepWithPlaceholder(f, o, count) ==
    IF o = RAISE THEN EndCall(f, "exception")
    ELSE LET g == [f EXCEPT !.k = @ + 1,
                            !.latencies = Append(@, IF IsNone(o) THEN 0 ELSE Val(o)),
                            !.sampled = @ \/ ~IsNone(o),
                            !.samples = Append(@, o)]
         IN  IF g.k >= count THEN AfterSampling(g) ELSE g

\* One measure_latency call of the list comprehension, with outcome o;
\* samples holds what the calls made so far returned, until the statistics
\* are stored and the next probe is made.
SampleStep(f, o, count) ==
    IF o = RAISE THEN EndCall(f, "exception")
    ELSE LET g == [f EXCEPT !.k = @ + 1,
                            !.latencies = IF IsNone(o) THEN @ ELSE Append(@, Val(o)),
                            !.sampled = @ \/ ~IsNone(o),
                            !.samples = Append(@, o)]
         IN  IF g.k >= count THEN AfterSampling(g) ELSE g

\* proxy.anonymity = check_anonymity(...), with the classification level.
AnonymityStep(f, level, fetch_country, domains) ==
    IF level = RAISE THEN EndCall(f, "exception")
    ELSE AfterAnonymity([f EXCEPT !.proxy.anonymity = level, !.samples = <<>>],
                        fetch_country, domains)

\* The geolocation step: code is what get_geo_info returned, RAISE when it
\* raised; a resolution failure (gaierror) stores "N/A".
GeoStep(f, resolved, code, domains) ==
    IF ~resolved THEN AfterGeo([f EXCEPT !.proxy.country_code = Some("N/A")], domains)
    ELSE IF code = RAISE THEN EndCall(f, "exception")
    ELSE AfterGeo([f EXCEPT !.proxy.country_code = Some(code)], domains)

\* A measure_latency_via_proxy that closes the socket only before the
\* return of the try block.
SocketClosedOnReturnOnly(o) ==
    CASE o = RAISE -> FALSE
      [] IsNone(o) -> FALSE
      [] OTHER     -> TRUE

\* "finally: s.close()" of measure_latency_via_proxy, by the way the probe
\* ends: an exception that no except clause lists propagates (RAISE), the
\* except clause returns None, or the try block returns the latency.  The
\* finally clause runs on each of them.
SocketClosed(o) ==
    CASE o = RAISE -> TRUE
      [] IsNone(o) -> TRUE
      [] OTHER     -> TRUE

\* The sockets of the call's tunnelled probes that are open, after one more
\* probe that opened a socket ("s = socks.socksocket()") and ended with o.
OpenSocketsAfter(n, o) == IF SocketClosed(o) THEN n ELSE n + 1

\* A loop over the external domains that stores only the probes that
\* succeeded.
TunnelStepOmitsFailures(f, o, domains) ==
    IF o = RAISE
    THEN EndCall([f EXCEPT !.open_sockets = OpenSocketsAfter(@, o)], "exception")
    ELSE LET g == [f EXCEPT !.proxy.ping_results =
                                IF IsNone(o) THEN @ ELSE DictSet(@, domains[f.d], o),
                            !.d = @ + 1,
                            !.open_sockets = OpenSocketsAfter(@, o)]
         IN  IF g.d > Len(domains) THEN EndCall(g, "result") ELSE g

\* One iteration of "for domain in external_domains", with outcome o.
TunnelStep(f, o, domains) ==
    IF o = RAISE
    THEN EndCall([f EXCEPT !.open_sockets = OpenSocketsAfter(@, o)], "exception")
    ELSE LET g == [f EXCEPT !.proxy.ping_results = DictSet(@, domains[f.d], o),
                            !.d = @ + 1,
                            !.open_sockets = OpenSocketsAfter(@, o)]
         IN  IF g.d > Len(domains) THEN EndCall(g, "result") ELSE g

(***************************************************************************)
(* The ThreadPoolExecutor's worker threads.                                *)
(***************************************************************************)
PoolAlive == fwd.pc \notin {"none", "start", "ended", "dead"}

\* The history of a probe step made for future i.
StepHistory(i) ==
    hist' = IF hist.stopSignalled
            THEN [hist EXCEPT !.stepsAfterStop[i] = IF @ < 2 THEN @ + 1 ELSE @]
            ELSE hist

\* What a worker's step on future i leaves: the worker is free again when
\* the call has ended.
Advance(w, i, f) ==
    /\ futures' = [futures EXCEPT ![i] = f]
    /\ worker' = IF f.st = "done" THEN [worker EXCEPT ![w] = 0] ELSE worker
    /\ StepHistory(i)
    /\ UNCHANGED <<gui_vars, result_queue, fetching, fwd>>

\* A pool that hands out the oldest work item whose call has not ended,
\* taken or not.
NextUnfinishedItem == CHOOSE i \in DOMAIN futures :
                          /\ futures[i].st # "done"
                          /\ \A j \in 1..(i - 1) : futures[j].st = "done"

\* The work item a free worker takes: the oldest one submitted and not taken.
NextWorkItem == CHOOSE i \in DOMAIN futures :
                    /\ futures[i].st = "pending"
                    /\ \A j \in 1..(i - 1) : futures[j].st # "pending"

\* A free worker takes the next work item and enters check_proxy.
WorkerTake(w) ==
    /\ PoolAlive
    /\ w <= fwd.workers
    /\ worker[w] = 0
    /\ \E i \in DOMAIN futures : futures[i].st = "pending"
    /\ futures' = [futures EXCEPT ![NextWorkItem].st = "running"]
    /\ worker' = [worker EXCEPT ![w] = NextWorkItem]
    /\ UNCHANGED <<gui_vars, result_queue, fetching, fwd, hist>>

WorkerSample(w) ==
    /\ worker[w] # 0
    /\ futures[worker[w]].pc = "sample"
    /\ LET i == worker[w]
           f == futures[i]
       IN  \E o \in measure_latency(f.proxy.server, f.proxy.port, world.latencies) :
               Advance(w, i, SampleStep(f, o, fwd.count))

\* The anonymity probe of worker w's call, answered by resp.
WorkerAnonymityWith(w, resp) ==
    /\ worker[w] # 0
    /\ futures[worker[w]].pc = "anon"
    /\ LET i == worker[w]
           f == futures[i]
       IN  Advance(w, i, AnonymityStep(f, check_anonymity(resp),
                                       fwd.fetch_country, external_domains))

WorkerAnonymity(w) == \E resp \in world.anon : WorkerAnonymityWith(w, resp)

\* The geolocation step of worker w's call: gethostbyname resolves or not,
\* and the geo-IP lookup is answered by resp.
WorkerGeoWith(w, resolved, resp) ==
    /\ worker[w] # 0
    /\ futures[worker[w]].pc = "geo"
    /\ LET i == worker[w]
           f == futures[i]
       IN  Advance(w, i, GeoStep(f, resolved, get_geo_info(resp), external_domains))

WorkerGeo(w) ==
    \E resolved \in world.resolve, resp \in world.geo : WorkerGeoWith(w, resolved, resp)

WorkerTunnel(w) ==
    /\ worker[w] # 0
    /\ futures[worker[w]].pc = "tunnel"
    /\ LET i == worker[w]
           f == futures[i]
       IN  \E o \in measure_latency_via_proxy(f.proxy.server, f.proxy.port,
                                              external_domains[f.d], world.latencies) :
               Advance(w, i, TunnelStep(f, o, external_domains))

(***************************************************************************)
(* gui.py: _run_checker_logic, the thread that forwards the results.       *)
(***************************************************************************)
\* A forwarding loop that never tests the run flag.
LoopNeverBreaks == FALSE

\* "if not self.scan_running.is_set(): break"
LoopBreaks == ~scan_running

\* The settings are read, the pool is created and every proxy is submitted.
RunCheckerStart ==
    /\ fwd.pc = "start"
    /\ \E settings \in world.settings :
          fwd' = [fwd EXCEPT !.pc = "loop", !.count = settings.count,
                             !.workers = settings.workers,
                             !.fetch_country = settings.fetch_country]
    /\ futures' = [i \in DOMAIN proxies_to_check |-> NewFuture(proxies_to_check[i])]
    /\ worker' = [w \in 1..MaxWorkers |-> 0]
    /\ hist' = [hist EXCEPT !.stepsAfterStop = [i \in DOMAIN proxies_to_check |-> 0]]
    /\ UNCHANGED <<gui_vars, result_queue, fetching>>

\* as_completed hands over a future that is done and was not handed over
\* before, and the loop body tests the run flag.
RunCheckerNext ==
    /\ fwd.pc = "loop"
    /\ \E j \in Finished \ fwd.yielded :
          fwd' = IF LoopBreaks THEN [fwd EXCEPT !.pc = "shutdown"]
                 ELSE [fwd EXCEPT !.pc = "pause_loop", !.cur = j,
                                  !.yielded = @ \cup {j}]
    /\ UNCHANGED <<gui_vars, result_queue, fetching, futures, worker, hist>>

\* as_completed has handed over every future: the loop ends.
RunCheckerExhausted ==
    /\ fwd.pc = "loop"
    /\ fwd.yielded = DOMAIN futures
    /\ fwd' = [fwd EXCEPT !.pc = "shutdown"]
    /\ UNCHANGED <<gui_vars, result_queue, fetching, futures, worker, hist>>

\* "while self.scan_paused.is_set(): self.after(100)" is left, and
\* future.result() returns the call's value or raises its exception.
RunCheckerResume ==
    /\ fwd.pc = "pause_loop"
    /\ ~scan_paused
    /\ fwd' = [fwd EXCEPT !.pc =
                  CASE futures[fwd.cur].outcome = "exception" -> "raised"
                    [] futures[fwd.cur].outcome = "none" -> "put_progress"
                    [] OTHER -> "put_result"]
    /\ UNCHANGED <<gui_vars, result_queue, fetching, futures, worker, hist>>

RunCheckerPutResult ==
    /\ fwd.pc = "put_result"
    /\ Put("RESULT", futures[fwd.cur].proxy)
    /\ fwd' = [fwd EXCEPT !.pc = "put_progress"]
    /\ UNCHANGED <<gui_vars, fetching, futures, worker, hist>>

\* A loop that puts the index of enumerate as it is, without the "+ 1".
RunCheckerPutProgressOfIndex ==
    /\ fwd.pc = "put_progress"
    /\ Put("PROGRESS_UPDATE", fwd.i)
    /\ fwd' = [fwd EXCEPT !.pc = "loop", !.i = @ + 1]
    /\ UNCHANGED <<gui_vars, fetching, futures, worker, hist>>

\* self.result_queue.put(("PROGRESS_UPDATE", i + 1))
RunCheckerPutProgress ==
    /\ fwd.pc = "put_progress"
    /\ Put("PROGRESS_UPDATE", fwd.i + 1)
    /\ fwd' = [fwd EXCEPT !.pc = "loop", !.i = @ + 1]
    /\ UNCHANGED <<gui_vars, fetching, futures, worker, hist>>

\* A forwarding thread that ends without putting SCAN_COMPLETE.
RunCheckerShutdownWithoutPut ==
    /\ fwd.pc = "shutdown"
    /\ Finished = DOMAIN futures
    /\ fwd' = [fwd EXCEPT !.pc = "ended"]
    /\ UNCHANGED <<gui_vars, result_queue, fetching, futures, worker, hist>>

\* The with block is left: shutdown(wait=True) returns when every submitted
\* call has run; then SCAN_COMPLETE is put.
RunCheckerShutdown ==
    /\ fwd.pc = "shutdown"
    /\ Finished = DOMAIN futures
    /\ Put("SCAN_COMPLETE", <<>>)
    /\ fwd' = [fwd EXCEPT !.pc = "ended"]
    /\ UNCHANGED <<gui_vars, fetching, futures, worker, hist>>

\* future.result() raised: the with block is left the same way, and the
\* exception ends the thread.
RunCheckerRaised ==
    /\ fwd.pc = "raised"
    /\ Finished = DOMAIN futures
    /\ fwd' = [fwd EXCEPT !.pc = "dead"]
    /\ UNCHANGED <<gui_vars, result_queue, fetching, futures, worker, hist>>

(***************************************************************************)
(* The specification.                                                      *)
(***************************************************************************)
UserStep ==
    \/ StartScanEmptyUrl
    \/ StartScanUrl
    \/ StartScanLocal
    \/ PauseScan
    \/ ResumeScan
    \/ StopScan
    \/ ClearAll

ProcessQueue ==
    \/ HandleFetchSuccess
    \/ HandleFetchError
    \/ HandleProgress
    \/ HandleResult
    \/ HandleScanComplete

FetchStep == FetchSucceeds \/ FetchFails

WorkerStep(w) ==
    \/ WorkerTake(w)
    \/ WorkerSample(w)
    \/ WorkerAnonymity(w)
    \/ WorkerGeo(w)
    \/ WorkerTunnel(w)

RunCheckerStep ==
    \/ RunCheckerStart
    \/ RunCheckerNext
    \/ RunCheckerExhausted
    \/ RunCheckerResume
    \/ RunCheckerPutResult
    \/ RunCheckerPutProgress
    \/ RunCheckerShutdown
    \/ RunCheckerRaised

Next ==
    \/ UserStep
    \/ ProcessQueue
    \/ FetchStep
    \/ \E w \in 1..MaxWorkers : WorkerStep(w)
    \/ RunCheckerStep

Spec == Init /\ [][Next]_vars

\* The same program where one proxy is scanned and the network answers in
\* every way of the model.
ProbeInit == InitIn(ProbeWorld)
ProbeSpec == ProbeInit /\ [][Next]_vars

\* The same program where the sources hold malformed lines of every kind.
ParseInit == InitIn(ParseWorld)
ParseSpec == ParseInit /\ [][Next]_vars

\* The threads run on: each pool worker, the forwarding thread and the
\* fetch thread take the steps they can take, and the main loop runs the
\* queue poller that _process_queue re-arms every 100 ms.  The pause loop
\* polls the flag every 100 ms, so it sees the flag clear when it is clear
\* again and again.  Nothing makes the user press a button.
ThreadFairness ==
    /\ WF_vars(ProcessQueue)
    /\ WF_vars(FetchStep)
    /\ \A w \in 1..MaxWorkers : WF_vars(WorkerStep(w))
    /\ WF_vars(RunCheckerStep)
    /\ SF_vars(RunCheckerResume)

FairSpec == Init /\ [][Next]_vars /\ ThreadFairness

\* The scans in which, moreover, every Pause is followed by a Resume.
ResumeFairSpec == Init /\ [][Next]_vars /\ ThreadFairness /\ WF_vars(ResumeScan)

(***************************************************************************)
(* Properties.                                                             *)
(***************************************************************************)
\* The forwarding thread has ended, by leaving _run_checker_logic or by an
\* exception.
ThreadOver == fwd.pc \in {"ended", "dead"}

\* The proxies of the RESULT messages on the queue.
ResultMessages ==
    {result_queue[k].data :
        k \in {n \in DOMAIN result_queue : result_queue[n].type = "RESULT"}}

\* The proxies that were put as a RESULT and not cleared since.
Reported == Range(results) \cup ResultMessages

\* The values of the PROGRESS_UPDATE messages on the queue.
ProgressMessages ==
    {result_queue[k].data :
        k \in {n \in DOMAIN result_queue : result_queue[n].type = "PROGRESS_UPDATE"}}

\* C1: a failure of one endpoint's probe, of whatever kind, stays local to
\* the endpoint: the forwarding thread does not end before it has put
\* SCAN_COMPLETE and, unless Stop was signalled, handed over every endpoint.
C1_FailureStaysLocal ==
    ThreadOver => /\ fwd.pc = "ended"
                  /\ ~hist.stopSignalled => fwd.yielded = DOMAIN futures

\* C2: an endpoint none of whose latency samples succeeded is never in the
\* result collection, and every proxy that reaches the result collection
\* had a successful sample and has both its ping and its jitter.
C2_OnlySampledEndpointsReported ==
    /\ \A i \in DOMAIN futures :
          ~futures[i].sampled =>
              /\ futures[i].outcome # "result"
              /\ \A p \in Reported : p.original_url # futures[i].proxy.original_url
    /\ \A p \in Reported :
          /\ ~IsNone(p.ping)
          /\ ~IsNone(p.jitter)
          /\ \E i \in DOMAIN futures : futures[i].sampled /\ futures[i].proxy = p

\* A finished scan of MaxCount samples per proxy in which one endpoint was
\* rejected with no successful sample and another one is in the results.
C2_Witness ==
    /\ hist.finished
    /\ fwd.count = MaxCount
    /\ \E i, j \in DOMAIN futures :
          /\ futures[i].outcome = "none" /\ ~futures[i].sampled
          /\ futures[j].sampled /\ futures[j].proxy \in Range(results)

\* C3: when a scan was stopped, the collection handed to the filter holds
\* the proxy of every endpoint whose check had returned a proxy before Stop
\* was signalled.
C3_CompletedBeforeStopRetained ==
    (hist.finished /\ hist.stopSignalled) =>
        \A i \in hist.doneAtStop :
            futures[i].outcome = "result" => futures[i].proxy \in Range(hist.handed)

\* C4: an endpoint whose check had not ended when Stop was signalled is
\* never handed over by the forwarding loop: no RESULT and no
\* PROGRESS_UPDATE is put for it.
C4_NotCompletedAtStopNeverReported ==
    hist.stopSignalled =>
        /\ fwd.yielded \subseteq hist.doneAtStop
        /\ \A p \in Reported : \E i \in hist.doneAtStop : futures[i].proxy = p
        /\ fwd.i <= Cardinality(hist.doneAtStop)
        /\ \A n \in ProgressMessages : n <= Cardinality(hist.doneAtStop)

\* A stopped scan that has finished, with a result of an endpoint that had
\* ended before Stop and an endpoint that returned a proxy after Stop.
C4_Witness ==
    /\ hist.stopSignalled
    /\ hist.finished
    /\ \E j \in hist.doneAtStop : futures[j].proxy \in Range(hist.handed)
    /\ \E i \in DOMAIN futures \ hist.doneAtStop : futures[i].outcome = "result"

\* C5: once Stop is signalled a check makes at most the probe step it is
\* in, and no check of an endpoint that had not been started is started.
C5_CancellationBetweenSteps ==
    hist.stopSignalled =>
        /\ \A i \in DOMAIN hist.stepsAfterStop : hist.stepsAfterStop[i] <= 1
        /\ Started \subseteq hist.startedAtStop

\* C6: while the scan is paused the set of endpoints whose check has
\* started does not grow.
C6_PauseStopsDispatch ==
    [][(scan_running /\ scan_paused /\ scan_running' /\ scan_paused')
          => Started' \subseteq Started]_vars

\* C7: the pause flag is set only while a scan is running: the run flag is
\* set and the scan has not finished.
C7_PausedOnlyWhileRunning ==
    scan_paused => (scan_running /\ controls = "scanning")

\* C8: the processed count never exceeds the total, and in a scan in which
\* no Stop is signalled one PROGRESS_UPDATE is put per submitted endpoint,
\* so that the count is the total when SCAN_COMPLETE is handled.
C8_OneProgressPerEndpoint ==
    /\ checked_proxies <= total_proxies
    /\ \A n \in ProgressMessages : n <= total_proxies
    /\ (ThreadOver /\ ~hist.stopSignalled) => fwd.i = Len(futures)
    /\ (HeadIs("SCAN_COMPLETE") /\ ~hist.stopSignalled) => checked_proxies = total_proxies

\* A check_proxy call of the scan has ended by an exception.
SomeCallRaised == \E i \in DOMAIN futures : futures[i].outcome = "exception"

\* The coordinator is in Completed: SCAN_COMPLETE was handled with the run
\* flag set, the run flag is clear, Start is enabled, and every submitted
\* endpoint was handed over and counted.
Completed ==
    /\ hist.finished
    /\ hist.final = "Complete"
    /\ ~scan_running
    /\ controls = "idle"
    /\ fwd.yielded = DOMAIN futures
    /\ checked_proxies = total_proxies

C10_StopReachesTerminal ==
    hist.stopSignalled ~> (controls = "idle" \/ SomeCallRaised)

\* The texts of an input source none of whose lines yields a record.
NoRecordTexts == {text \in InputTexts(LineKinds, MaxLines) : ParseAll(text) = <<>>}

\* The coordinator is idle with no scan behind it that finished: no pool,
\* no forwarding thread, no check_proxy call, the run flag clear and Start
\* enabled.
AbortedIdle ==
    /\ controls = "idle"
    /\ ~scan_running
    /\ ~hist.finished
    /\ fwd.pc = "none"
    /\ futures = <<>>
    /\ \A w \in 1..MaxWorkers : worker[w] = 0

\* C11: when the input of a scan yields no record (a source without a
\* valid line, an empty URL field, a fetch that fails or fetches no valid
\* line) the scan is aborted: the run flag is clear, Start is enabled and
\* no check_proxy call is made until a scan is started again.
C11_NoRecordAborts ==
    [][/\ (controls = "idle" /\ ~AbortedIdle') =>
              \A text \in NoRecordTexts : ~StartScanLocalWith(text)
       /\ StartScanEmptyUrl => AbortedIdle'
       /\ (HeadIs("URL_FETCH_ERROR") /\ result_queue' = Tail(result_queue))
              => AbortedIdle'
       /\ (/\ HeadIs("URL_FETCH_SUCCESS")
           /\ ParseAll(Head(result_queue).data) = <<>>
           /\ result_queue' = Tail(result_queue)) => AbortedIdle'
       /\ AbortedIdle => (AbortedIdle' \/ scan_running')]_vars

\* A scan that was aborted after an earlier scan had run: the counters
\* of the earlier scan are cleared and its pool is gone.
C11_Witness ==
    /\ AbortedIdle
    /\ total_proxies > 0
    /\ hist = HistInit
    /\ results = <<>>

\* The proxies _run_checker_logic has put as a RESULT in the scan.
PutAsResult ==
    {futures[i].proxy :
        i \in {j \in fwd.yielded :
                 /\ futures[j].outcome = "result"
                 /\ ~(j = fwd.cur /\ fwd.pc \in {"pause_loop", "put_result"})}}

\* C12: when the terminal event of a scan is handled, every RESULT put for
\* the scan has been appended to the results and no message is behind the
\* event; the results after the step are filter_and_sort_proxies of exactly
\* that collection (or the collection itself when a filter entry is
\* invalid); no RESULT is handled after SCAN_COMPLETE; an aborted scan
\* ends with an empty collection and no RESULT in flight.
C12_TerminalHandsResultsToFilter ==
    [][/\ (HeadIs("SCAN_COMPLETE") /\ result_queue' = Tail(result_queue)) =>
              /\ Tail(result_queue) = <<>>
              /\ fwd.pc = "ended"
              /\ Range(results) = PutAsResult
              /\ Len(results) = Cardinality(PutAsResult)
              /\ hist'.handed = results
              /\ \/ results' = results
                 \/ \E criteria \in CriteriaChoices :
                       results' = filter_and_sort_proxies(results, criteria)
       /\ (HeadIs("RESULT") /\ result_queue' = Tail(result_queue)) =>
              /\ ~hist.finished
              /\ Head(result_queue).data \in PutAsResult
       /\ (controls = "scanning" /\ AbortedIdle') =>
              /\ results' = <<>>
              /\ result_queue' = <<>>]_vars

\* SCAN_COMPLETE was handled with two results in the collection, and the
\* filter kept one of them.
C12_Witness ==
    /\ hist.finished
    /\ Len(hist.handed) = 2
    /\ Len(results) = 1
    /\ result_queue = <<>>

\* The workers that run the check_proxy call of future i.
WorkersOn(i) == {w \in 1..MaxWorkers : worker[w] = i}

\* Each call in progress has one worker, each worker one call, and each
\* proxy put as a RESULT is the proxy of one call that has ended and is in
\* the result collection or on the queue once.
OneWorkerPerEndpoint ==
    /\ \A i \in DOMAIN futures :
          Cardinality(WorkersOn(i)) = IF futures[i].st = "running" THEN 1 ELSE 0
    /\ \A w \in 1..MaxWorkers : worker[w] # 0 => worker[w] \in DOMAIN futures
    /\ \A p \in Reported :
          Cardinality({i \in DOMAIN futures : futures[i].proxy = p}) = 1
    /\ \A i \in DOMAIN futures :
          LET p == futures[i].proxy
          IN  /\ Cardinality({k \in DOMAIN results : results[k] = p})
                   + Cardinality({k \in DOMAIN result_queue :
                                     result_queue[k] = [type |-> "RESULT", data |-> p]})
                   <= 1
              /\ p \in Reported => futures[i].st = "done"

\* C13: no endpoint is processed by more than one worker: a submitted
\* record is taken by one worker, once; no two running calls work on the
\* same record; its proxy is put as a RESULT at most once and no worker
\* changes it after its call has ended.
C13_OneWorkerPerEndpoint ==
    [][/\ OneWorkerPerEndpoint'
       /\ \A i \in DOMAIN futures \cap DOMAIN futures' :
             /\ futures[i].st = "done" => futures'[i] = futures[i]
             /\ futures[i].st = "running" =>
                   /\ futures'[i].st # "pending"
                   /\ WorkersOn(i)' \subseteq WorkersOn(i)
                   /\ futures'[i] # futures[i] =>
                         \E w \in WorkersOn(i) :
                             \A v \in (1..MaxWorkers) \ {w} : worker'[v] = worker[v]
             /\ futures[i].st = "pending" => futures'[i].proxy = futures[i].proxy]_vars

\* Two workers run the calls of two endpoints at once, both past sampling.
C13_Witness ==
    /\ worker[1] # 0
    /\ worker[2] # 0
    /\ worker[1] # worker[2]
    /\ \A i \in DOMAIN futures : futures[i].st = "running" /\ futures[i].pc # "sample"

\* The successful samples among the outcomes of the measure_latency calls.
Successes(samples) == SelectSeq(samples, LAMBDA o : ~IsNone(o))

\* The sum of the successful samples, a failed one counting for nothing.
SumOfSuccesses(samples) ==
    SumSeq([k \in DOMAIN samples |-> IF IsNone(samples[k]) THEN 0 ELSE Val(samples[k])])

\* C14: once the sampling loop of a call has ended with at least one
\* success, ping is the sum of the successful samples divided by their
\* number, truncated (failed samples are neither in the sum nor in the
\* divisor), jitter is 0 when one sample succeeded and is not negative when
\* two or more did.
C14_PingIsTruncatedMeanOfSuccesses ==
    \A i \in DOMAIN futures :
        futures[i].pc = "anon" =>
            LET f == futures[i]
                n == Len(Successes(f.samples))
                total == SumOfSuccesses(f.samples)
            IN  /\ Len(f.samples) = fwd.count
                /\ n >= 1
                /\ ~IsNone(f.proxy.ping)
                /\ Val(f.proxy.ping) * n <= total
                /\ total < (Val(f.proxy.ping) + 1) * n
                /\ ~IsNone(f.proxy.jitter)
                /\ n = 1 => Val(f.proxy.jitter) = 0
                /\ n >= 2 => Val(f.proxy.jitter) >= 0

\* The statistics of two calls are stored: one sampled 10 and 25 ms (mean
\* 17.5, ping 17), the other failed once and then sampled 10 ms.
C14_Witness ==
    /\ Len(futures) = 2
    /\ futures[1].pc = "anon"
    /\ futures[1].samples = <<Some(10), Some(25)>>
    /\ futures[1].proxy.ping = Some(17)
    /\ futures[2].pc = "anon"
    /\ futures[2].samples = <<None, Some(10)>>
    /\ futures[2].proxy.ping = Some(10)
    /\ futures[2].proxy.jitter = Some(0)

\* The keys of ping_results are the requested domains, each with a latency
\* or None.
KeysAreRequestedDomains(proxy) ==
    /\ DOMAIN proxy.ping_results = Range(external_domains)
    /\ \A domain \in DOMAIN proxy.ping_results :
          \/ IsNone(proxy.ping_results[domain])
          \/ Val(proxy.ping_results[domain]) \in world.latencies

\* C15: the key set of ping_results of every proxy check_proxy returns, and
\* of every proxy put as a RESULT, is the set of the external domains of
\* the scan: a domain whose tunnelled probe failed is a key with the value
\* None, and no other domain is a key.
C15_PingResultsKeysAreRequestedDomains ==
    /\ \A i \in DOMAIN futures :
          futures[i].outcome = "result" => KeysAreRequestedDomains(futures[i].proxy)
    /\ \A proxy \in Reported : KeysAreRequestedDomains(proxy)

\* A proxy in the result collection whose tunnelled probe to the one
\* requested domain failed.
C15_Witness ==
    /\ external_domains = <<"google.com">>
    /\ \E k \in DOMAIN results :
          /\ DOMAIN results[k].ping_results = {"google.com"}
          /\ IsNone(results[k].ping_results["google.com"])

\* The anonymity probe of the call of future i has been made.
AnonymityProbed(i) ==
    /\ ~IsNone(futures[i].proxy.ping)
    /\ futures[i].pc # "anon"

\* C16: the anonymity probe never fails open: whatever the probe comes back
\* with, check_anonymity returns Elite, Anonymous or Transparent, so a call
\* whose anonymity probe has been made did not end there by an exception
\* and its proxy has a level other than Unknown.
C16_AnonymityNeverUnknown ==
    \A i \in DOMAIN futures :
        AnonymityProbed(i) =>
            futures[i].proxy.anonymity \in {"Elite", "Anonymous", "Transparent"}

\* The echo shows the client: more than one address in origin, or a Via
\* header, or an X-Forwarded-For header, whatever the header's value.
Leaks(resp) ==
    \/ Len(resp.origin) > 1
    \/ ~IsNone(resp.via)
    \/ ~IsNone(resp.forwarded)

\* C17: for every well-formed echo response the anonymity probe stores
\* Transparent if and only if origin holds more than one address or a Via
\* header or an X-Forwarded-For header is present, with any value, the
\* empty one included, and Elite in every other case.
C17_TransparentIffLeak ==
    [][\A w \in 1..MaxWorkers :
          \A resp \in {r \in world.anon : r.kind = "echo"} :
              WorkerAnonymityWith(w, resp) =>
                  futures'[worker[w]].proxy.anonymity =
                      IF Leaks(resp) THEN "Transparent" ELSE "Elite"]_vars

\* The country code of a geolocation step: the code the lookup returned
\* when the hostname resolved and the lookup succeeded with a code, and
\* "N/A" in every other case.
BestEffortCountry(resolved, resp) ==
    IF /\ resolved
       /\ resp.kind = "json"
       /\ resp.status = "success"
       /\ ~IsNone(resp.countryCode)
    THEN Val(resp.countryCode) ELSE "N/A"

\* C18: geolocation is best-effort: whatever the hostname resolution and
\* the geo-IP lookup come back with, the geolocation step does not end the
\* call by an exception and stores the returned code on success and "N/A"
\* in every other case; a call without geolocation leaves country_code
\* absent.
C18_GeolocationBestEffort ==
    [][/\ \A w \in 1..MaxWorkers :
             \A resolved \in world.resolve, resp \in world.geo :
                 WorkerGeoWith(w, resolved, resp) =>
                     /\ futures'[worker[w]].outcome # "exception"
                     /\ futures'[worker[w]].proxy.country_code =
                            Some(BestEffortCountry(resolved, resp))
       /\ \A i \in DOMAIN futures' :
             ~fwd'.fetch_country => IsNone(futures'[i].proxy.country_code)]_vars

\* A line that is blank: nothing is left of it after strip().
BlankLine == [ws |-> TRUE, nonblank |-> FALSE, server |-> "", port |-> <<>>, secret |-> <<>>]

\* The text is an integer literal: an optional sign and one digit or more.
IsIntegerText(str) ==
    \E first \in {1, 2} :
        /\ first <= Len(str)
        /\ first = 2 => str[1] \in {"-", "+"}
        /\ \A k \in first..Len(str) : IsDigit(str[k])

\* The line is blank, or lacks the server, the port or the secret (or has
\* it with an empty value), or its port is no integer.
Malformed(line) ==
    \/ ~line.nonblank
    \/ line.server = ""
    \/ line.port = <<>>
    \/ line.secret = <<>>
    \/ ~IsIntegerText(line.port)

\* C19: a line that is blank, lacks the server, the port or the secret, or
\* has a port that is no integer yields no record and no error: when the
\* lines of a fetched source are parsed, the records are those of the lines
\* that are not malformed, one each and in order, wherever the malformed
\* lines are, and the scan proceeds with them; it is aborted only when no
\* line is left.
C19_MalformedLineYieldsNothing ==
    [][/\ parse_proxy_url(BlankLine) = None
       /\ (HeadIs("URL_FETCH_SUCCESS") /\ result_queue' = Tail(result_queue)) =>
             LET text == Head(result_queue).data
                 wellformed == SelectSeq(text, LAMBDA line : ~Malformed(line))
             IN  IF wellformed = <<>>
                 THEN /\ controls' = "idle"
                      /\ proxies_to_check' = proxies_to_check
                      /\ fwd'.pc = "none"
                 ELSE /\ fwd'.pc = "start"
                      /\ Len(proxies_to_check') = Len(wellformed)
                      /\ \A k \in DOMAIN wellformed :
                            /\ proxies_to_check'[k].original_url = wellformed[k]
                            /\ proxies_to_check'[k].server = wellformed[k].server
                            /\ proxies_to_check'[k].secret = wellformed[k].secret]_vars

\* A scan proceeds with the one record of a source whose first line was
\* malformed and whose second line was not.
C19_Witness ==
    /\ fwd.pc = "start"
    /\ total_proxies = 1
    /\ Len(proxies_to_check) = 1
    /\ proxies_to_check[1].server = Hosts[2]

\* The data-model invariant of an endpoint record.
ValidEndpoint(proxy) ==
    /\ proxy.server # ""
    /\ proxy.secret # <<>>
    /\ proxy.port >= 1
    /\ proxy.port <= 65535

\* C20: every record the parser yields has a non-empty server, a non-empty
\* secret and a port in 1..65535: a line whose port is an integer outside
\* that range yields no record.
C20_RecordsAreValidEndpoints ==
    \A k \in DOMAIN proxies_to_check : ValidEndpoint(proxies_to_check[k])

(***************************************************************************)
(* core/checker.py: parse_proxy_url called on its own, once on a line and  *)
(* once more on the original_url of the record it returned.                *)
(***************************************************************************)
\* The texts of the port parameter: integer literals (one with a leading
\* zero, one signed, one above 65535), a text that is no integer, and none.
PortTexts ==
    {<<"4", "4", "3">>, <<"0", "4", "4", "3">>, <<"+", "4", "4", "3">>,
     <<"7", "0", "0", "0", "0">>, <<"4", "4", "x">>, <<>>}

\* The lines parse_proxy_url may be given: with or without whitespace around
\* them, each parameter present or not, and the blank line.
DescriptorLines ==
    {BlankLine} \cup
    {[ws |-> ws, nonblank |-> TRUE, server |-> server, port |-> port, secret |-> secret] :
        ws \in BOOLEAN, server \in {"", "h1", "a..b"}, port \in PortTexts,
        secret \in {<<>>, <<"s", "1">>}}

ParseCallInit ==
    /\ ProgramInit(ScanWorld)
    /\ call \in {[fn |-> "parse_proxy_url", stage |-> "called", line |-> line,
                  returned |-> None, again |-> None] : line \in DescriptorLines}

\* parse_proxy_url(line)
ParseCall ==
    /\ call.fn = "parse_proxy_url"
    /\ call.stage = "called"
    /\ call' = [call EXCEPT !.stage = "returned",
                            !.returned = parse_proxy_url(call.line)]
    /\ UNCHANGED <<world, scan_running, scan_paused, controls, proxies_to_check,
                   total_proxies, checked_proxies, healthy_proxies, results,
                   external_domains, result_queue, fetching, fwd, futures, worker, hist>>

\* parse_proxy_url(r.original_url) for the record r the first call returned.
ReparseCall ==
    /\ call.fn = "parse_proxy_url"
    /\ call.stage = "returned"
    /\ ~IsNone(call.returned)
    /\ call' = [call EXCEPT !.stage = "reparsed",
                            !.again = parse_proxy_url(Val(call.returned).original_url)]
    /\ UNCHANGED <<world, scan_running, scan_paused, controls, proxies_to_check,
                   total_proxies, checked_proxies, healthy_proxies, results,
                   external_domains, result_queue, fetching, fwd, futures, worker, hist>>

ParseCallNext == ParseCall \/ ReparseCall
ParseCallSpec == ParseCallInit /\ [][ParseCallNext]_vars

\* C21: parsing is total and idempotent on valid descriptors: a line with
\* server, port and secret present and an integer port yields a record,
\* with or without whitespace around the line, and parsing the record's
\* original_url yields a record with the same server, port, secret and
\* original_url.
C21_ParseIdempotent ==
    call.fn = "parse_proxy_url" =>
        /\ call.stage # "called" =>
              /\ ~Malformed(call.line) => ~IsNone(call.returned)
              /\ ~IsNone(call.returned) =>
                    /\ Val(call.returned).server = call.line.server
                    /\ Val(call.returned).secret = call.line.secret
        /\ call.stage = "reparsed" =>
              /\ ~IsNone(call.again)
              /\ Val(call.again).server = Val(call.returned).server
              /\ Val(call.again).port = Val(call.returned).port
              /\ Val(call.again).secret = Val(call.returned).secret
              /\ Val(call.again).original_url = Val(call.returned).original_url

\* A line with whitespace around it and the port text 0443 was parsed, and
\* the original_url of its record, whose port is 443, was parsed again.
C21_Witness ==
    /\ call.fn = "parse_proxy_url"
    /\ call.stage = "reparsed"
    /\ call.line.ws
    /\ call.line.port = <<"0", "4", "4", "3">>
    /\ Val(call.returned).port = 443
    /\ ~IsNone(call.again)

(***************************************************************************)
(* core/checker.py: filter_and_sort_proxies called on its own.             *)
(***************************************************************************)
\* The measurements a record of the collection may carry: ping, jitter (in
\* hundredths), country code and secret.  Two have the ping 30, one has the
\* ping 0 and the jitter 0, one was never measured and has no country.
Measurements ==
    {[ping |-> Some(30), jitter |-> Some(0), country_code |-> Some("US"),
      secret |-> <<"s", "1">>],
     [ping |-> Some(80), jitter |-> Some(500), country_code |-> Some("DE"),
      secret |-> <<"s", "2">>],
     [ping |-> None, jitter |-> None, country_code |-> None, secret |-> <<"s", "1">>],
     [ping |-> Some(0), jitter |-> Some(0), country_code |-> Some("US"),
      secret |-> <<"s", "2">>],
     [ping |-> Some(30), jitter |-> Some(500), country_code |-> None,
      secret |-> <<"s", "2">>]}

\* The k-th record of a collection, with measurements m: the records of a
\* collection are distinct objects, told apart by their server.
MeasuredProxy(k, m) ==
    [Proxy(Hosts[k], 443, m.secret, [LineOf("good", k) EXCEPT !.secret = m.secret])
        EXCEPT !.ping = m.ping, !.jitter = m.jitter, !.country_code = m.country_code,
               !.anonymity = "Elite"]

\* The collections of up to MaxRecords records.
Collections ==
    UNION {{[k \in 1..n |-> MeasuredProxy(k, ms[k])] : ms \in [1..n -> Measurements]} :
             n \in 0..MaxRecords}

\* The criteria of a call: every combination of the five filters, the
\* bounds 0, the four sorts, and truncations.
FilterCombinations ==
    {[FilterCriteria EXCEPT !.max_ping = max_ping, !.min_ping = min_ping,
                            !.require_secret = require_secret,
                            !.include_countries = include_countries,
                            !.exclude_countries = exclude_countries] :
        max_ping \in {None, Some(50)}, min_ping \in {None, Some(30)},
        require_secret \in {None, <<"1">>}, include_countries \in {None, <<"us">>},
        exclude_countries \in {None, <<"de">>}}

CallCriteria ==
    FilterCombinations
    \cup {[FilterCriteria EXCEPT !.max_ping = Some(0)],
          [FilterCriteria EXCEPT !.min_ping = Some(0)]}
    \cup {[FilterCriteria EXCEPT !.sort_by = sort_by, !.sort_order = sort_order] :
            sort_by \in {"ping", "jitter"}, sort_order \in {"asc", "desc"}}
    \cup {[FilterCriteria EXCEPT !.top_n = Some(top_n), !.sort_order = sort_order] :
            top_n \in 0..(MaxRecords - 1), sort_order \in {"asc", "desc"}}
    \cup {[FilterCriteria EXCEPT !.top_n = Some(1), !.max_ping = Some(50)]}

\* input is the value of the caller's list when the call is made, proxies
\* the value of the same list object now.
FilterCallInit ==
    /\ ProgramInit(ScanWorld)
    /\ call \in {[fn |-> "filter_and_sort_proxies", stage |-> "called",
                  input |-> proxies, proxies |-> proxies, criteria |-> criteria,
                  returned |-> <<>>, again |-> <<>>] :
                    proxies \in Collections, criteria \in CallCriteria}

\* filter_and_sort_proxies(proxies, criteria)
FilterCall ==
    /\ call.fn = "filter_and_sort_proxies"
    /\ call.stage = "called"
    /\ call' = [call EXCEPT !.stage = "returned",
                            !.returned = filter_and_sort_proxies(call.proxies, call.criteria),
                            !.proxies = ArgumentAfterCall(call.proxies, call.criteria)]
    /\ UNCHANGED <<world, scan_running, scan_paused, controls, proxies_to_check,
                   total_proxies, checked_proxies, healthy_proxies, results,
                   external_domains, result_queue, fetching, fwd, futures, worker, hist>>

\* A second call, with a list equal to the one the first call was given.
FilterCallAgain ==
    /\ call.fn = "filter_and_sort_proxies"
    /\ call.stage = "returned"
    /\ call' = [call EXCEPT !.stage = "returned_again",
                            !.again = filter_and_sort_proxies(call.input, call.criteria)]
    /\ UNCHANGED <<world, scan_running, scan_paused, controls, proxies_to_check,
                   total_proxies, checked_proxies, healthy_proxies, results,
                   external_domains, result_queue, fetching, fwd, futures, worker, hist>>

FilterCallNext == FilterCall \/ FilterCallAgain
FilterCallSpec == FilterCallInit /\ [][FilterCallNext]_vars

\* The call of filter_and_sort_proxies has returned.
FilterReturned == call.fn = "filter_and_sort_proxies" /\ call.stage # "called"

(***************************************************************************)
(* C22: the five exclusion steps keep exactly the records that satisfy     *)
(* every specified criterion, in whatever order the steps are applied.     *)
(***************************************************************************)
\* The country code of p is one of the codes of the list, upper-cased.
CountryIn(p, countries) ==
    /\ ~IsNone(p.country_code)
    /\ \E i \in DOMAIN countries : Upper(countries[i]) = Val(p.country_code)

\* p satisfies every criterion that criteria specifies.
Satisfies(p, criteria) ==
    /\ ~IsNone(criteria.max_ping) =>
          ~IsNone(p.ping) /\ Val(p.ping) <= Val(criteria.max_ping)
    /\ ~IsNone(criteria.min_ping) =>
          ~IsNone(p.ping) /\ Val(p.ping) >= Val(criteria.min_ping)
    /\ Truthy(criteria.require_secret) => Contains(p.secret, criteria.require_secret)
    /\ Truthy(criteria.include_countries) => CountryIn(p, criteria.include_countries)
    /\ Truthy(criteria.exclude_countries) => ~CountryIn(p, criteria.exclude_countries)

\* The i-th "if criteria.x: filtered = [p for p in filtered if ...]".
ExclusionStep(i, filtered, criteria) ==
    CASE i = 1 -> IF ~IsNone(criteria.max_ping)
                  THEN SelectSeq(filtered, LAMBDA p :
                         ~IsNone(p.ping) /\ Val(p.ping) <= Val(criteria.max_ping))
                  ELSE filtered
      [] i = 2 -> IF ~IsNone(criteria.min_ping)
                  THEN SelectSeq(filtered, LAMBDA p :
                         ~IsNone(p.ping) /\ Val(p.ping) >= Val(criteria.min_ping))
                  ELSE filtered
      [] i = 3 -> IF Truthy(criteria.require_secret)
                  THEN SelectSeq(filtered, LAMBDA p :
                         Contains(p.secret, criteria.require_secret))
                  ELSE filtered
      [] i = 4 -> IF Truthy(criteria.include_countries)
                  THEN SelectSeq(filtered, LAMBDA p :
                         CountryIn(p, criteria.include_countries))
                  ELSE filtered
      [] OTHER -> IF Truthy(criteria.exclude_countries)
                  THEN SelectSeq(filtered, LAMBDA p :
                         ~CountryIn(p, criteria.exclude_countries))
                  ELSE filtered

\* The exclusion steps applied in the order given.
RECURSIVE StepsInOrder(_, _, _)
StepsInOrder(order, filtered, criteria) ==
    IF order = <<>> THEN filtered
    ELSE StepsInOrder(Tail(order), ExclusionStep(Head(order), filtered, criteria), criteria)

\* Every order of the five steps.
StepOrders == {order \in [1..5 -> 1..5] : Range(order) = 1..5}

\* C22: without truncation, the records the call returns are the records of
\* the collection that satisfy every specified criterion, and the five
\* exclusion steps applied in any order leave the same set of records.
C22_FilteringIsOrderIndependent ==
    (FilterReturned /\ IsNone(call.criteria.top_n)) =>
        /\ Range(call.returned)
             = {p \in Range(call.input) : Satisfies(p, call.criteria)}
        /\ \A order \in StepOrders :
             Range(StepsInOrder(order, call.input, call.criteria)) = Range(call.returned)

\* A call with an upper and a lower bound and an include list has returned
\* one record of three.
C22_Witness ==
    /\ FilterReturned
    /\ ~IsNone(call.criteria.max_ping)
    /\ ~IsNone(call.criteria.min_ping)
    /\ Truthy(call.criteria.include_countries)
    /\ Len(call.input) = MaxRecords
    /\ Len(call.returned) = 1

(***************************************************************************)
(* C23: records whose sort value is absent come last in ascending order    *)
(* and first in descending order.                                          *)
(***************************************************************************)
\* The value of the chosen field of p is absent.
Absent(p, sort_by) == IsNone(GetAttr(p, sort_by))

\* C23: in the returned list, ascending, every record whose value is absent
\* is after every record whose value is measured; descending, before.
C23_AbsentValuesSortLast ==
    FilterReturned =>
        LET r == call.returned
            sort_by == call.criteria.sort_by
        IN  \A i, j \in DOMAIN r :
                (Absent(r[i], sort_by) /\ ~Absent(r[j], sort_by)) =>
                    IF call.criteria.sort_order = "desc" THEN i < j ELSE j < i

(***************************************************************************)
(* C24: the sort key is the value of the chosen field, 0 included.         *)
(***************************************************************************)
\* C24: among the returned records whose value is measured, ascending order
\* is by non-decreasing value and descending order by non-increasing value.
C24_MeasuredValuesInOrder ==
    FilterReturned =>
        LET r == call.returned
            sort_by == call.criteria.sort_by
        IN  \A i, j \in DOMAIN r :
                (i < j /\ ~Absent(r[i], sort_by) /\ ~Absent(r[j], sort_by)) =>
                    IF call.criteria.sort_order = "desc"
                    THEN Val(GetAttr(r[i], sort_by)) >= Val(GetAttr(r[j], sort_by))
                    ELSE Val(GetAttr(r[i], sort_by)) <= Val(GetAttr(r[j], sort_by))

(***************************************************************************)
(* C25: the sort is stable, ascending and descending.                      *)
(***************************************************************************)
\* The place of the record p in the list ps (the records of a collection
\* are distinct).
PlaceIn(ps, p) == CHOOSE i \in DOMAIN ps : ps[i] = p

\* C25: two returned records with equal sort keys are in the order they had
\* in the collection, for both sort orders.
C25_SortIsStable ==
    FilterReturned =>
        LET r == call.returned
            sort_by == call.criteria.sort_by
        IN  \A i, j \in DOMAIN r :
                (i < j /\ SortKey(r[i], sort_by) = SortKey(r[j], sort_by)) =>
                    PlaceIn(call.input, r[i]) < PlaceIn(call.input, r[j])

\* A descending call has moved a record in front of two records with equal
\* keys that came before it.
C25_Witness ==
    /\ FilterReturned
    /\ call.criteria.sort_order = "desc"
    /\ Len(call.returned) = MaxRecords
    /\ LET r == call.returned
           sort_by == call.criteria.sort_by
       IN  /\ SortKey(r[2], sort_by) = SortKey(r[3], sort_by)
           /\ SortKey(r[1], sort_by) # SortKey(r[2], sort_by)
           /\ PlaceIn(call.input, r[1]) = MaxRecords

(***************************************************************************)
(* C26: what each criterion excludes and keeps.                            *)
(***************************************************************************)
\* criteria specifies nothing but ping bounds.
OnlyPingBounds(criteria) ==
    /\ ~Truthy(criteria.require_secret)
    /\ ~Truthy(criteria.include_countries)
    /\ ~Truthy(criteria.exclude_countries)
    /\ IsNone(criteria.top_n)

\* criteria specifies nothing but an exclude list.
OnlyExcludeList(criteria) ==
    /\ IsNone(criteria.max_ping)
    /\ IsNone(criteria.min_ping)
    /\ ~Truthy(criteria.require_secret)
    /\ ~Truthy(criteria.include_countries)
    /\ Truthy(criteria.exclude_countries)
    /\ IsNone(criteria.top_n)

\* ping is within the bounds of criteria, the bounds included.
WithinBounds(ping, criteria) ==
    /\ ~IsNone(criteria.max_ping) => ping <= Val(criteria.max_ping)
    /\ ~IsNone(criteria.min_ping) => ping >= Val(criteria.min_ping)

\* The pings of the records of a list.
PingsOf(ps) == [i \in DOMAIN ps |-> ps[i].ping]

\* C26: with a ping bound specified (0 included) no returned record has an
\* absent ping and every returned ping is within the bounds; a record whose
\* ping is within the bounds, a bound itself included, is returned when
\* nothing else is specified; with an include list no returned record has an
\* absent country; an exclude list alone keeps every record with an absent
\* country; with a required secret every returned secret contains it; and
\* maxPing 50 on the pings [30, 80, absent] returns exactly the first record.
C26_CriteriaSemantics ==
    FilterReturned =>
        LET criteria == call.criteria
            kept == Range(call.returned)
        IN  /\ (~IsNone(criteria.max_ping) \/ ~IsNone(criteria.min_ping)) =>
                  \A p \in kept : ~IsNone(p.ping) /\ WithinBounds(Val(p.ping), criteria)
            /\ OnlyPingBounds(criteria) =>
                  \A p \in Range(call.input) :
                      (~IsNone(p.ping) /\ WithinBounds(Val(p.ping), criteria)) => p \in kept
            /\ Truthy(criteria.include_countries) =>
                  \A p \in kept : CountryIn(p, criteria.include_countries)
            /\ Truthy(criteria.exclude_countries) =>
                  \A p \in kept : ~CountryIn(p, criteria.exclude_countries)
            /\ OnlyExcludeList(criteria) =>
                  \A p \in Range(call.input) : IsNone(p.country_code) => p \in kept
            /\ Truthy(criteria.require_secret) =>
                  \A p \in kept : Contains(p.secret, criteria.require_secret)
            /\ (/\ criteria = [FilterCriteria EXCEPT !.max_ping = Some(50)]
                /\ PingsOf(call.input) = <<Some(30), Some(80), None>>) =>
                  call.returned = <<call.input[1]>>

\* maxPing 50 was applied to the pings [30, 80, absent].
C26_Witness ==
    /\ FilterReturned
    /\ call.criteria = [FilterCriteria EXCEPT !.max_ping = Some(50)]
    /\ PingsOf(call.input) = <<Some(30), Some(80), None>>
    /\ PingsOf(call.returned) = <<Some(30)>>

(***************************************************************************)
(* C27: filter_and_sort_proxies leaves its argument alone and is a         *)
(* function of its inputs.                                                 *)
(***************************************************************************)
\* C27: after the call the caller's list holds the records it held before
\* the call, in the same order, and a second call with equal inputs returns
\* an equal result.
C27_FilterIsPure ==
    /\ FilterReturned => call.proxies = call.input
    /\ (call.fn = "filter_and_sort_proxies" /\ call.stage = "returned_again") =>
           call.again = call.returned

(***************************************************************************)
(* C28: truncation to top_n is the last step.                              *)
(***************************************************************************)
\* The filtered and sorted list of the call: the five exclusion steps in the
\* order of the code, then the sort.
FilteredAndSorted ==
    SortProxies(StepsInOrder(<<1, 2, 3, 4, 5>>, call.input, call.criteria),
                call.criteria.sort_by, call.criteria.sort_order = "desc")

\* C28: with a count top_n (0 or more) the result is the first top_n records
\* of the filtered and sorted list: it has at most top_n records and every
\* record left out is, in that list, after every record kept; without top_n
\* the result is the whole filtered and sorted list.
C28_TruncationIsLast ==
    FilterReturned =>
        LET all == FilteredAndSorted
            top_n == call.criteria.top_n
        IN  IF IsNone(top_n) THEN call.returned = all
            ELSE /\ Len(call.returned) <= Val(top_n)
                 /\ Len(call.returned) = IF Val(top_n) < Len(all) THEN Val(top_n) ELSE Len(all)
                 /\ \A i \in DOMAIN call.returned : call.returned[i] = all[i]
                 /\ \A p \in Range(all) \ Range(call.returned) :
                        \A q \in Range(call.returned) : PlaceIn(all, q) < PlaceIn(all, p)

\* A call with top_n 1 has returned one record, which was not the first of
\* the collection, and left two out.
C28_Witness ==
    /\ FilterReturned
    /\ call.criteria.top_n = Some(1)
    /\ Len(FilteredAndSorted) = MaxRecords
    /\ Len(call.returned) = 1
    /\ call.returned[1] # call.input[1]

(***************************************************************************)
(* C29: the order of the steps of check_proxy.                             *)
(***************************************************************************)
\* The call of future g has returned the proxy.
ReturnedProxy(g) == g.st = "done" /\ g.outcome = "result"

\* What follows the geolocation step: the first tunnelled probe, to the
\* first requested domain, or the return when no domain is requested.
TunnelsNext(g) ==
    IF Len(external_domains) >= 1 THEN g.st = "running" /\ g.pc = "tunnel" /\ g.d = 1
    ELSE ReturnedProxy(g)

\* A step of the call of future i, from f to g, is the step the order asks
\* for: one more sample until count samples were attempted; then the
\* rejection, with nothing probed, when no sample succeeded, and else the
\* anonymity probe; after it the geolocation lookup if requested; then one
\* tunnelled probe per requested domain, in list order; then the return.
StepInOrder(f, g) ==
    CASE f.pc = "sample" ->
            /\ g.k = f.k + 1
            /\ IF g.k < fwd.count THEN g.st = "running" /\ g.pc = "sample"
               ELSE IF g.sampled THEN g.st = "running" /\ g.pc = "anon"
               ELSE /\ g.st = "done" /\ g.outcome = "none"
                    /\ g.proxy.anonymity = "Unknown"
                    /\ IsNone(g.proxy.country_code)
                    /\ g.proxy.ping_results = <<>>
      [] f.pc = "anon" ->
            /\ g.proxy.anonymity # "Unknown"
            /\ IF fwd.fetch_country THEN g.st = "running" /\ g.pc = "geo"
               ELSE IsNone(g.proxy.country_code) /\ TunnelsNext(g)
      [] f.pc = "geo" ->
            /\ ~IsNone(g.proxy.country_code)
            /\ TunnelsNext(g)
      [] f.pc = "tunnel" ->
            /\ g.d = f.d + 1
            /\ DOMAIN g.proxy.ping_results
                 = DOMAIN f.proxy.ping_results \cup {external_domains[f.d]}
            /\ IF g.d <= Len(external_domains) THEN g.st = "running" /\ g.pc = "tunnel"
               ELSE ReturnedProxy(g)
      [] OTHER -> FALSE

\* A probe step of worker w.
ProbeStep(w) ==
    WorkerSample(w) \/ WorkerAnonymity(w) \/ WorkerGeo(w) \/ WorkerTunnel(w)

\* C29: every probe step of a call of check_proxy is the step the fixed order
\* asks for: exactly count samples whatever they return, the rejection
\* without any further probe when none succeeded, else one anonymity probe,
\* then the geolocation lookup only if requested, then one tunnelled probe
\* per requested domain in list order.
C29_StepsInFixedOrder ==
    [][\A w \in 1..MaxWorkers :
          ProbeStep(w) => StepInOrder(futures[worker[w]], futures'[worker[w]])]_vars

(***************************************************************************)
(* C30: measure_latency_via_proxy closes its socket on every exit path.    *)
(***************************************************************************)
\* The call of future f ended by an exception of a tunnelled probe: its
\* anonymity and its country had been stored.
TunnelRaised(f) ==
    /\ f.outcome = "exception"
    /\ f.proxy.anonymity # "Unknown"
    /\ ~IsNone(f.proxy.country_code)

\* C30: whatever way the tunnelled probes of a call ended (a latency, None
\* after a caught error, or an error that propagates), none of the sockets
\* they opened is open once the probe has returned.
C30_TunnelSocketAlwaysClosed ==
    \A i \in DOMAIN futures : futures[i].open_sockets = 0

\* A call ended by the exception of a tunnelled probe, with no socket open.
C30_Witness ==
    \E i \in DOMAIN futures :
        /\ TunnelRaised(futures[i])
        /\ ~PortInRange(futures[i].proxy.port)
        /\ futures[i].open_sockets = 0

(***************************************************************************)
(* C31: the counters the consumer keeps are consistent.                    *)
(***************************************************************************)
\* In the queue every RESULT is followed at once by a PROGRESS_UPDATE; the
\* RESULT put last is followed by it as soon as the loop makes its next put.
ResultBeforeProgress ==
    \A i \in DOMAIN result_queue :
        result_queue[i].type = "RESULT" =>
            IF i < Len(result_queue) THEN result_queue[i + 1].type = "PROGRESS_UPDATE"
            ELSE fwd.pc = "put_progress"

\* Until _scan_finished has applied the filter, the healthy count is the
\* number of records of the result collection.
HealthyCountsResults == ~hist.finished => healthy_proxies = Len(results)

\* C31: a RESULT is put before the PROGRESS_UPDATE of its endpoint; whenever
\* a PROGRESS_UPDATE is handled the healthy count is at most the processed
\* count, so that the failed count shown is not negative; and the healthy
\* count is the number of results until the filter is applied.
C31_CountersConsistent ==
    /\ [](ResultBeforeProgress /\ HealthyCountsResults)
    /\ [][HandleProgress =>
            /\ healthy_proxies' <= checked_proxies'
            /\ checked_proxies' - healthy_proxies' >= 0]_vars

\* A second PROGRESS_UPDATE was handled after one RESULT: one healthy, one
\* failed, and the filter not yet applied.
C31_Witness ==
    /\ checked_proxies = 2
    /\ healthy_proxies = 1
    /\ Len(results) = 1
    /\ ~hist.finished
    /\ controls = "scanning"

(***************************************************************************)
(* C32: scans do not leak into each other.                                 *)
(***************************************************************************)
\* The Start button is enabled and _start_scan does not return at once.
StartEnabled == controls = "idle" /\ ~scan_running

\* Something of a scan is left: its fetch thread, its forwarding thread
\* about to create the pool or with the pool, a worker in a call, or a
\* message in the queue.
ScanLeft ==
    \/ fetching
    \/ fwd.pc = "start"
    \/ PoolAlive
    \/ \E w \in 1..MaxWorkers : worker[w] # 0
    \/ result_queue # <<>>

\* _start_scan runs past its first line.
StartStep == StartEnabled /\ (StartScanEmptyUrl \/ StartScanUrl \/ StartScanLocal)

\* C32: while anything of a scan is left Start is refused or disabled, so
\* there is never more than one pool; and a scan that starts has an empty
\* result collection and zeroed counters, with no thread, no pool and no
\* message of an earlier scan left to reach it.
C32_ScansDoNotLeak ==
    /\ [](ScanLeft => ~StartEnabled)
    /\ [][StartStep =>
            /\ ~ScanLeft
            /\ results' = <<>>
            /\ checked_proxies' = 0
            /\ healthy_proxies' = 0
            /\ result_queue' = <<>>]_vars

\* A scan has started, from the URL source, after a scan of some endpoints:
\* nothing of that scan is left but its list of endpoints.
C32_Witness ==
    /\ fetching
    /\ scan_running
    /\ total_proxies >= 1
    /\ results = <<>>
    /\ checked_proxies = 0
    /\ healthy_proxies = 0
    /\ result_queue = <<>>
    /\ fwd.pc = "none"

(***************************************************************************)
(* cli.py: main, the filtering and sorting of the healthy proxies, called  *)
(* on its own next to filter_and_sort_proxies.                             *)
(***************************************************************************)
\* The inline sequence with the country codes compared as they were typed.
cli_filter_and_sort_without_upper(healthy, args) ==
    LET f1 == IF ~IsNone(args.max_ping)
              THEN SelectSeq(healthy,
                     LAMBDA p : ~IsNone(p.ping) /\ Val(p.ping) <= Val(args.max_ping))
              ELSE healthy
        f2 == IF ~IsNone(args.min_ping)
              THEN SelectSeq(f1,
                     LAMBDA p : ~IsNone(p.ping) /\ Val(p.ping) >= Val(args.min_ping))
              ELSE f1
        f3 == IF Truthy(args.require_secret)
              THEN SelectSeq(f2, LAMBDA p : Contains(p.secret, args.require_secret))
              ELSE f2
        f4 == IF Truthy(args.country)
              THEN SelectSeq(f3,
                     LAMBDA p : \E i \in DOMAIN args.country :
                                   p.country_code = Some(args.country[i]))
              ELSE f3
        f5 == IF Truthy(args.exclude_country)
              THEN SelectSeq(f4,
                     LAMBDA p : ~\E i \in DOMAIN args.exclude_country :
                                   p.country_code = Some(args.exclude_country[i]))
              ELSE f4
        sorted == SortProxies(f5, args.sort_by, args.sort_order = "desc")
    IN  IF ~IsNone(args.top) THEN Truncate(sorted, Val(args.top)) ELSE sorted

\* cli.py:183-198: the five "if args.x: healthy_proxies = [...]", the sort
\* and the slice, on the list healthy of the healthy proxies; the result is
\* the list main saves or prints.
cli_filter_and_sort(healthy, args) ==
    LET f1 == IF ~IsNone(args.max_ping)
              THEN SelectSeq(healthy,
                     LAMBDA p : ~IsNone(p.ping) /\ Val(p.ping) <= Val(args.max_ping))
              ELSE healthy
        f2 == IF ~IsNone(args.min_ping)
              THEN SelectSeq(f1,
                     LAMBDA p : ~IsNone(p.ping) /\ Val(p.ping) >= Val(args.min_ping))
              ELSE f1
        f3 == IF Truthy(args.require_secret)
              THEN SelectSeq(f2, LAMBDA p : Contains(p.secret, args.require_secret))
              ELSE f2
        f4 == IF Truthy(args.country)
              THEN SelectSeq(f3,
                     LAMBDA p : \E i \in DOMAIN args.country :
                                   p.country_code = Some(Upper(args.country[i])))
              ELSE f3
        f5 == IF Truthy(args.exclude_country)
              THEN SelectSeq(f4,
                     LAMBDA p : ~\E i \in DOMAIN args.exclude_country :
                                   p.country_code = Some(Upper(args.exclude_country[i])))
              ELSE f4
        sorted == SortProxies(f5, args.sort_by, args.sort_order = "desc")
    IN  IF ~IsNone(args.top) THEN Truncate(sorted, Val(args.top)) ELSE sorted

\* The namespace argparse builds: an option that is not given is None.
ArgsOf(criteria) ==
    [max_ping |-> criteria.max_ping, min_ping |-> criteria.min_ping,
     require_secret |-> criteria.require_secret,
     country |-> criteria.include_countries,
     exclude_country |-> criteria.exclude_countries,
     sort_by |-> criteria.sort_by, sort_order |-> criteria.sort_order,
     top |-> criteria.top_n]

\* Filters, sort and truncation given together.
CombinedCriteria ==
    {[FilterCriteria EXCEPT !.max_ping = Some(50), !.exclude_countries = <<"de">>,
                            !.sort_by = sort_by, !.sort_order = sort_order,
                            !.top_n = Some(top_n)] :
        sort_by \in {"ping", "jitter"}, sort_order \in {"asc", "desc"},
        top_n \in 1..(MaxRecords - 1)}

CliArgs == {ArgsOf(criteria) : criteria \in CallCriteria \cup CombinedCriteria}

\* The FilterCriteria built from the values of the namespace.
CriteriaOf(args) ==
    [max_ping |-> args.max_ping, min_ping |-> args.min_ping,
     include_countries |-> args.country, exclude_countries |-> args.exclude_country,
     require_secret |-> args.require_secret, top_n |-> args.top,
     sort_by |-> args.sort_by, sort_order |-> args.sort_order]

CliCallInit ==
    /\ ProgramInit(ScanWorld)
    /\ call \in {[fn |-> "cli", stage |-> "called", healthy_proxies |-> proxies,
                  args |-> args, output |-> <<>>, returned |-> <<>>] :
                    proxies \in Collections, args \in CliArgs}

\* main filters, sorts and truncates the healthy proxies.
CliFilterAndSort ==
    /\ call.fn = "cli"
    /\ call.stage = "called"
    /\ call' = [call EXCEPT !.stage = "output",
                            !.output = cli_filter_and_sort(call.healthy_proxies, call.args)]
    /\ UNCHANGED <<world, scan_running, scan_paused, controls, proxies_to_check,
                   total_proxies, checked_proxies, healthy_proxies, results,
                   external_domains, result_queue, fetching, fwd, futures, worker, hist>>

\* filter_and_sort_proxies is called with an equal list and the criteria
\* built from the same values.
CliEngineCall ==
    /\ call.fn = "cli"
    /\ call.stage = "output"
    /\ call' = [call EXCEPT !.stage = "compared",
                            !.returned = filter_and_sort_proxies(call.healthy_proxies,
                                                                 CriteriaOf(call.args))]
    /\ UNCHANGED <<world, scan_running, scan_paused, controls, proxies_to_check,
                   total_proxies, checked_proxies, healthy_proxies, results,
                   external_domains, result_queue, fetching, fwd, futures, worker, hist>>

CliCallNext == CliFilterAndSort \/ CliEngineCall
CliCallSpec == CliCallInit /\ [][CliCallNext]_vars

\* C33: the list the command line outputs is the list
\* filter_and_sort_proxies returns for the criteria built from the same
\* values, for every collection and every combination of the options.
C33_CliEqualsEngine ==
    (call.fn = "cli" /\ call.stage = "compared") => call.output = call.returned

\* Both were applied to three records with --max-ping, --exclude-country,
\* descending order and --top 1, and one record that was not the first came
\* out.
C33_Witness ==
    /\ call.fn = "cli"
    /\ call.stage = "compared"
    /\ ~IsNone(call.args.max_ping)
    /\ Truthy(call.args.exclude_country)
    /\ call.args.sort_order = "desc"
    /\ call.args.top = Some(1)
    /\ Len(call.healthy_proxies) = MaxRecords
    /\ Len(call.returned) = 1
    /\ call.returned[1] # call.healthy_proxies[1]

====
